---- MODULE Spec2Model ----
(***************************************************************************)
(* A model of pyFlipper's host-side client: the storage layer              *)
(* (storage.py), the transports (serial.py) and the watchdog/task helper   *)
(* (threaded.py), together with the device they talk to.                   *)
(*                                                                         *)
(* Text is modelled structurally.  A path is the tuple pathlib calls       *)
(* `parts`: <<root, seg1, ..., segk>>.  A device reply is a record whose   *)
(* `head` holds the first two blank-separated tokens of the reply text     *)
(* (what the client's regular expressions and startswith tests look at)    *)
(* and whose other fields hold the parsed remainder.                       *)
(***************************************************************************)
EXTENDS Integers, Sequences, FiniteSets, TLC

VARIABLES
    fs,         \* the device's filesystem: existing path -> [kind, data]
    call,       \* the storage-layer operation last invoked, with its arguments
    wire,       \* what that operation put on the link, in order
    result,     \* how it ended: [exc |-> exception or "none", val |-> value]
    _watchdog,  \* Threaded._watchdog: the Watchdog object in the slot, or None
    _exec_thread, \* Threaded._exec_thread: the Task in the slot (its number), 0 for None
    tasks,      \* the Task threads ever started: where each one stands
    made,       \* how many Watchdog objects were constructed
    link,       \* what the threads wrote to the shared transport, in order
    mainpc,     \* the calling thread: "idle", or "sending" inside SerialWrapper.send
    now,        \* the clock
    tcall,      \* the Threaded method last invoked, with the slots before and after
    transport,  \* "local" (LocalSerial) or "ws" (WSSerial)
    request,    \* the arguments of SerialWrapper.send: [payload, read_until]
    incoming,   \* what the device answers, in the chunks in which it arrives
    outgoing,   \* the byte strings written to the device
    answer,     \* how send ended: [exc, val]
    input,      \* the argument of a function that is examined on its own
    outcome     \* what the function made of it: [exc, val]

storageVars == <<fs, call, wire, result>>
threadedVars == <<_watchdog, _exec_thread, tasks, made, link, mainpc, now, tcall>>
sendVars == <<transport, request, incoming, outgoing, answer>>
pureVars == <<input, outcome>>

\* the slot values before anything was armed or started, and the other idle values
None == [id |-> 0, timeout |-> 0, born |-> 0, initialized |-> FALSE]
Snapshot(w, e, l) == [watchdog |-> w, exec_thread |-> e, sent |-> Len(l)]
NoCall == [op |-> "none", timeout |-> 0, exc |-> "none",
           before |-> Snapshot(None, 0, <<>>), after |-> Snapshot(None, 0, <<>>)]

ThreadedIdle ==
    /\ _watchdog = None
    /\ _exec_thread = 0
    /\ tasks = <<>>
    /\ made = 0
    /\ link = <<>>
    /\ mainpc = "idle"
    /\ now = 0
    /\ tcall = NoCall

NotSent == [exc |-> "none", val |-> <<>>]

SendIdle ==
    /\ transport = "local"
    /\ request = [payload |-> <<>>, read_until |-> <<>>]
    /\ incoming = <<>>
    /\ outgoing = <<>>
    /\ answer = NotSent

NotApplied == [exc |-> "none", val |-> "not applied"]

PureIdle ==
    /\ input = <<>>
    /\ outcome = NotApplied

(***************************************************************************)
(* Bounds of the model.                                                    *)
(***************************************************************************)
MaxDepth == 3       \* segments below the storage root
MaxNodes == 3       \* entries on the device at any time (tree operations)

\* segment names, in the order in which the device lists them
NameSeq == <<"a", "b", "c", "d", "e">>
Names == {NameSeq[i] : i \in 1..MaxDepth}
NameRank(n) == CHOOSE i \in 1..Len(NameSeq) : NameSeq[i] = n
Nil == "nil"

(***************************************************************************)
(* Path model (PureFlipperPath / FlipperPath).                             *)
(***************************************************************************)
storages == {"/ext"}

\* the paths the model works with: at most MaxDepth segments below a storage
\* root, the segment names increasing along the path (so /ext/a/b/c is one
\* of them, and a directory can hold several entries)
RECURSIVE SeqsUpTo(_, _)
SeqsUpTo(S, n) ==
    IF n = 0 THEN {<<>>}
    ELSE SeqsUpTo(S, n - 1) \cup {Append(s, x) : s \in SeqsUpTo(S, n - 1), x \in S}

Increasing(s) == \A i \in 1..(Len(s) - 1) : NameRank(s[i]) < NameRank(s[i + 1])

Universe == {<<r>> \o s : r \in storages, s \in {t \in SeqsUpTo(Names, MaxDepth) : Increasing(t)}}

is_root(p) == Len(p) = 1

parent(p) == SubSeq(p, 1, Len(p) - 1)

\* parents: parts[:-i] for i in 1 .. len(parts)-1, closest first
parents(p) == [i \in 1..(Len(p) - 1) |-> SubSeq(p, 1, Len(p) - i)]

IsPrefix(a, b) == Len(a) <= Len(b) /\ SubSeq(b, 1, Len(a)) = a

StrictlyBelow(p, q) == Len(p) > Len(q) /\ IsPrefix(q, p)

(***************************************************************************)
(* The device.  Its replies follow the wire protocol of the specification  *)
(* (section 6); the firmware itself is not part of the repository.         *)
(***************************************************************************)
Dir == [kind |-> "dir", data |-> <<>>]
FileOf(d) == [kind |-> "file", data |-> d]

Exists(f, p) == p \in DOMAIN f
KindOf(f, p) == IF is_root(p) THEN "storage" ELSE IF Exists(f, p) THEN f[p].kind ELSE ""

WellFormed(f) ==
    \A p \in DOMAIN f :
        /\ ~is_root(p)
        /\ (is_root(parent(p)) \/ (Exists(f, parent(p)) /\ f[parent(p)].kind = "dir"))

\* lexicographic order on paths over the order of the names: the order in which
\* a depth-first walk of the device reports entries (a directory before its
\* contents)
RECURSIVE PathLess(_, _)
PathLess(p, q) ==
    IF p = <<>> THEN q # <<>>
    ELSE IF q = <<>> THEN FALSE
    ELSE IF Head(p) = Head(q) THEN PathLess(Tail(p), Tail(q))
    ELSE NameRank(Head(p)) < NameRank(Head(q))

Least(S) == CHOOSE p \in S : \A q \in S \ {p} : PathLess(Tail(p), Tail(q))

RECURSIVE OrderedSeq(_)
OrderedSeq(S) == IF S = {} THEN <<>> ELSE <<Least(S)>> \o OrderedSeq(S \ {Least(S)})

SizeText(n) == [mag |-> n, unit |-> "b"]

\* "[D] <name>" / "[F] <name> <size>b"; the name is the full path in a tree
\* reply (abs) and the bare last segment in a list reply
EntryLine(f, p, deep) ==
    [tag |-> IF f[p].kind = "dir" THEN "D" ELSE "F",
     abs |-> deep,
     name |-> IF deep THEN p ELSE <<p[Len(p)]>>,
     size |-> SizeText(Len(f[p].data))]

\* a reply: `head` is the first two tokens of the text, `msg` the rest of an
\* error line, `lines` the entry lines of a listing, `nums` the size fields
ErrorReply(msg) == [head |-> <<"Storage", "error:">>, msg |-> msg, lines |-> <<>>, nums |-> <<>>]
TextReply(h) == [head |-> h, msg |-> "", lines |-> <<>>, nums |-> <<>>]
NoReply == TextReply(<<"", "">>)

\* "Storage, <n>KiB total, <n>KiB free" / "Directory" / "File, size: <n>b"
DevStat(f, p) ==
    IF is_root(p)
    THEN [TextReply(<<"Storage,", "total">>) EXCEPT !.nums = <<[mag |-> 8, unit |-> "KiB"], [mag |-> 4, unit |-> "KiB"]>>]
    ELSE IF ~Exists(f, p) THEN ErrorReply("file/dir not exist")
    ELSE IF f[p].kind = "dir" THEN TextReply(<<"Directory", "">>)
    ELSE [TextReply(<<"File,", "size:">>) EXCEPT !.nums = <<SizeText(Len(f[p].data))>>]

\* the six lines of "storage info": label, type, total, free, model, serial
DevInfo(f, p) ==
    IF ~is_root(p) THEN ErrorReply("invalid name/path")
    ELSE [head |-> <<"Label:", "Type:">>, msg |-> "",
          lines |-> <<"Label:", "Type:", "total", "free", "model", "SN:">>,
          nums |-> <<[mag |-> 7, unit |-> "KiB"], [mag |-> 5, unit |-> "KiB"]>>]

\* the digest of a file's content; distinct contents have distinct digests
MD5(data) == <<"md5">> \o data

DevMd5(f, p) ==
    IF KindOf(f, p) # "file" THEN ErrorReply("file/dir not exist")
    ELSE [TextReply(<<"digest", "">>) EXCEPT !.lines = <<MD5(f[p].data)>>]

\* "Size: <n>" and a line break, then the n bytes of the file
DevRead(f, p) ==
    IF KindOf(f, p) # "file" THEN ErrorReply("file/dir not exist")
    ELSE [TextReply(<<"Size:", "n">>) EXCEPT !.nums = <<[mag |-> Len(f[p].data), unit |-> ""]>>,
                                             !.lines = <<f[p].data>>]

\* what a write session stores: the bytes that came before the first ETX
RECURSIVE UpToETX(_)
UpToETX(bytes) ==
    IF bytes = <<>> \/ Head(bytes) = "ETX" THEN <<>> ELSE <<Head(bytes)>> \o UpToETX(Tail(bytes))

\* "storage write <p>" followed by a byte stream: the file is (re)written
\* when its directory exists and the path is no directory
DevWrite(f, p, stream) ==
    IF is_root(p) \/ KindOf(f, p) = "dir" \/ KindOf(f, parent(p)) \notin {"dir", "storage"} THEN f
    ELSE (p :> FileOf(UpToETX(stream))) @@ f

DevTimestamp(f, p) ==
    IF ~is_root(p) THEN ErrorReply("invalid name/path")
    ELSE [TextReply(<<"Timestamp", "0">>) EXCEPT !.nums = <<[mag |-> 0, unit |-> ""]>>]

ListingReply(lines) ==
    [head |-> IF lines = <<>> THEN <<"", "">>
              ELSE <<IF lines[1].tag = "D" THEN "[D]" ELSE "[F]", "name">>,
     msg |-> "", lines |-> lines, nums |-> <<>>]

EntryLines(f, order, deep) == [i \in 1..Len(order) |-> EntryLine(f, order[i], deep)]

DevListing(f, p, deep) ==
    IF KindOf(f, p) \notin {"dir", "storage"} THEN ErrorReply("file/dir not exist")
    ELSE ListingReply(EntryLines(f,
            OrderedSeq({q \in DOMAIN f : StrictlyBelow(q, p) /\ (deep \/ Len(q) = Len(p) + 1)}),
            deep))

DevMkdir(f, p) ==
    IF is_root(p) \/ Exists(f, p) THEN [fs |-> f, reply |-> ErrorReply("file/dir already exist")]
    ELSE IF KindOf(f, parent(p)) \notin {"dir", "storage"}
         THEN [fs |-> f, reply |-> ErrorReply("file/dir not exist")]
    ELSE [fs |-> (p :> Dir) @@ f, reply |-> NoReply]

DevRemove(f, p) ==
    IF ~Exists(f, p) THEN [fs |-> f, reply |-> ErrorReply("file/dir not exist")]
    ELSE IF \E q \in DOMAIN f : StrictlyBelow(q, p)
         THEN [fs |-> f, reply |-> ErrorReply("access denied")]
    ELSE [fs |-> [q \in DOMAIN f \ {p} |-> f[q]], reply |-> NoReply]

\* the device's answer to one text command, and its filesystem afterwards
Device(f, c) ==
    CASE c.cmd = "stat"   -> [fs |-> f, reply |-> DevStat(f, c.path)]
      [] c.cmd = "list"   -> [fs |-> f, reply |-> DevListing(f, c.path, FALSE)]
      [] c.cmd = "tree"   -> [fs |-> f, reply |-> DevListing(f, c.path, TRUE)]
      [] c.cmd = "mkdir"  -> DevMkdir(f, c.path)
      [] c.cmd = "remove" -> DevRemove(f, c.path)
      [] c.cmd = "md5"    -> [fs |-> f, reply |-> DevMd5(f, c.path)]
      [] c.cmd = "timestamp" -> [fs |-> f, reply |-> DevTimestamp(f, c.path)]
      [] c.cmd = "info"   -> [fs |-> f, reply |-> DevInfo(f, c.path)]
      [] c.cmd = "read"   -> [fs |-> f, reply |-> DevRead(f, c.path)]
      [] OTHER            -> [fs |-> f, reply |-> NoReply]

(***************************************************************************)
(* SerialWrapper.send, as the storage layer sees it.                       *)
(***************************************************************************)
Cmd(c, p) == [cmd |-> c, path |-> p]

Return(m, v) == [m |-> m, exc |-> "none", val |-> v]
Raise(m, e) == [m |-> m, exc |-> e, val |-> Nil]
RaiseMsg(m, e, msg) == [m |-> m, exc |-> e, val |-> msg]

WordTokens == {"Storage", "Directory", "File"}

\* re.compile("\w+\serror:\s.*").match(received): the matched text, or the
\* empty tuple for None
error_check(received) ==
    IF received.head[1] \in WordTokens /\ received.head[2] = "error:"
    THEN <<received.head[1], "error:", received.msg>>
    ELSE <<>>

\* r, unless it raised; then K of it
Bind(r, K(_)) == IF r.exc # "none" THEN r ELSE K(r)

Checked(m, received, error) ==
    IF error # <<>> THEN RaiseMsg(m, "FlipperError", error) ELSE Return(m, received)

Answered(m, c, d) ==
    Checked([m EXCEPT !.fs = d.fs, !.wire = Append(@, c)], d.reply, error_check(d.reply))

\* the command goes out, the device acts on it and answers, the answer is
\* checked for the error shape
send(m, c) == Answered(m, c, Device(m.fs, c))

(***************************************************************************)
(* utils.parse_fs_size on a size text <magnitude><unit>.                   *)
(***************************************************************************)
parse_fs_size(value) ==
    IF value.unit = "KiB" THEN value.mag * 1024
    ELSE IF value.unit = "MiB" THEN value.mag * 1024 * 1024
    ELSE IF value.unit = "GiB" THEN value.mag * 1024 * 1024 * 1024
    ELSE value.mag

(***************************************************************************)
(* Exceptions (exceptions.py).                                             *)
(***************************************************************************)
StorageExceptions ==
    {"StorageException", "StoragePathInvalid", "StorageMD5Mismatch", "StoragePathNotFile",
     "StoragePathNotDir", "StoragePathNotFree", "StoragePathFree"}

IsStorageException(e) == e \in StorageExceptions

(***************************************************************************)
(* Storage: _explorer, info, remove, mkdir, md5, stat.                     *)
(***************************************************************************)
\* one child of a listing line: an absolute name is a path of its own, a bare
\* name is joined to the queried path
\* (mutant) the reported name is taken as the path, never joined to the queried path
child_unjoined(path, line) ==
    [name |-> line.name[Len(line.name)],
     path |-> line.name,
     type |-> IF line.tag = "D" THEN "dir" ELSE "file",
     size |-> IF line.tag = "D" THEN 0 ELSE parse_fs_size(line.size)]

ChildOf(path, line) ==
    [name |-> line.name[Len(line.name)],
     path |-> IF line.abs THEN line.name ELSE path \o line.name,
     type |-> IF line.tag = "D" THEN "dir" ELSE "file",
     size |-> IF line.tag = "D" THEN 0 ELSE parse_fs_size(line.size)]

SelectType(children, t) == SelectSeq(children, LAMBDA c : c.type = t)

Listing(children) ==
    [dirs |-> SelectType(children, "dir"), files |-> SelectType(children, "file"),
     children |-> children]

_explorer(m, cmd, path) ==
    Bind(send(m, Cmd(cmd, path)), LAMBDA r :
        Return(r.m, Listing([i \in 1..Len(r.val.lines) |-> ChildOf(path, r.val.lines[i])])))

Storage_info(m, path) ==
    IF ~is_root(path) THEN Raise(m, "StoragePathInvalid")
    ELSE Bind(send(m, Cmd("info", path)), LAMBDA r :
            IF Len(r.val.lines) # 6 THEN Raise(r.m, "FlipperException")
            ELSE Return(r.m, [total_size |-> parse_fs_size(r.val.nums[1]),
                              free_space |-> parse_fs_size(r.val.nums[2])]))

Storage_remove(m, file) == Bind(send(m, Cmd("remove", file)), LAMBDA r : Return(r.m, Nil))

Storage_mkdir(m, new_dir) == Bind(send(m, Cmd("mkdir", new_dir)), LAMBDA r : Return(r.m, Nil))

RECURSIVE SumSizes(_)
SumSizes(files) == IF files = <<>> THEN 0 ELSE Head(files).size + SumSizes(Tail(files))

Min(a, b) == IF a < b THEN a ELSE b

NoTree == [dirs |-> <<>>, files |-> <<>>, children |-> <<>>]
StatRecord(path, type) ==
    [path |-> path, type |-> type, size |-> 0, md5 |-> <<>>, tree |-> NoTree,
     total_size |-> 0, free_space |-> 0, data |-> <<>>]

\* the branches of the try block of Storage.stat after the first send
StatFile(m, path, received, extended) ==
    IF ~extended THEN Return(m, [StatRecord(path, "file") EXCEPT !.size = parse_fs_size(received.nums[1])])
    ELSE Bind(send(m, Cmd("md5", path)), LAMBDA r :
            Return(r.m, [StatRecord(path, "file") EXCEPT !.size = parse_fs_size(received.nums[1]),
                                                         !.md5 = r.val.lines[1]]))

StatDir(m, path, extended) ==
    IF ~extended THEN Return(m, StatRecord(path, "dir"))
    ELSE Bind(_explorer(m, "tree", path), LAMBDA t :
            Return(t.m, [StatRecord(path, "dir") EXCEPT !.tree = t.val,
                                                        !.total_size = SumSizes(t.val.files)]))

StorageRecord(path, received) ==
    [StatRecord(path, "storage") EXCEPT !.total_size = parse_fs_size(received.nums[1]),
                                        !.free_space = parse_fs_size(received.nums[2])]

\* (mutant) the sizes of "storage info" replace those of "storage stat"
Enriched_from_info(rec, tree, infos) ==
    [rec EXCEPT !.tree = tree, !.total_size = infos.total_size, !.free_space = infos.free_space]

Enriched(rec, tree, infos) ==
    [rec EXCEPT !.tree = tree,
                !.total_size = Min(infos.total_size, rec.total_size),
                !.free_space = Min(infos.free_space, rec.free_space)]

StatStorage(m, path, received, extended) ==
    IF ~extended THEN Return(m, StorageRecord(path, received))
    ELSE Bind(_explorer(m, "tree", path), LAMBDA t :
         Bind(send(t.m, Cmd("timestamp", path)), LAMBDA ts :
         Bind(Storage_info(ts.m, path), LAMBDA infos :
            Return(infos.m, Enriched(StorageRecord(path, received), t.val, infos.val)))))

NotExistMarker == <<"Storage", "error:", "file/dir not exist">>

\* (mutant) the except clause tests for another marker
StatTranslateOtherMarker(r) ==
    IF r.exc # "FlipperError" THEN r
    ELSE IF r.val = <<"Storage", "error:", "invalid name/path">> THEN Raise(r.m, "StoragePathFree")
    ELSE Raise(r.m, "FlipperException")

\* except FlipperError as e: the not-exist marker becomes StoragePathFree,
\* any other device error FlipperException
StatTranslate(r) ==
    IF r.exc # "FlipperError" THEN r
    ELSE IF r.val = NotExistMarker THEN Raise(r.m, "StoragePathFree")
    ELSE Raise(r.m, "FlipperException")

StatDispatch(first, path, extended) ==
    IF first.exc # "none" THEN first
    ELSE IF first.val.head[1] = "File," THEN StatFile(first.m, path, first.val, extended)
    ELSE IF first.val.head[1] = "Directory" THEN StatDir(first.m, path, extended)
    ELSE IF first.val.head[1] = "Storage," THEN StatStorage(first.m, path, first.val, extended)
    ELSE Raise(first.m, "FlipperException")

Storage_stat(m, path, extended) ==
    StatTranslate(StatDispatch(send(m, Cmd("stat", path)), path, extended))

(***************************************************************************)
(* FlipperPath on a freshly constructed path object (nothing cached yet).  *)
(***************************************************************************)
\* r with the StorageExceptions swallowed: v is returned in their place
Swallow(r, v) == IF IsStorageException(r.exc) THEN Return(r.m, v) ELSE r

\* cached_property type: one "storage stat" per object
type(m, self) ==
    Swallow(Bind(Storage_stat(m, self, FALSE), LAMBDA r : Return(r.m, r.val.type)), "")

\* property stat: the extended stat, or {} when it raised a StorageException
path_stat(m, self) == Swallow(Storage_stat(m, self, TRUE), StatRecord(self, Nil))

\* property tree
path_tree(m, self) ==
    Bind(path_stat(m, self), LAMBDA s :
        IF s.val.type = Nil THEN Raise(s.m, "KeyError")
        ELSE IF s.val.type \in {"dir", "storage"} THEN Return(s.m, s.val.tree)
        ELSE Raise(s.m, "StoragePathNotDir"))

\* (mutant) an ancestor that is a file is let through
RECURSIVE check_parents_free_only(_, _)
check_parents_free_only(m, ps) ==
    IF ps = <<>> THEN Return(m, Nil)
    ELSE Bind(type(m, Head(ps)), LAMBDA t :
            IF t.val = "" THEN Raise(t.m, "StoragePathInvalid")
            ELSE check_parents_free_only(t.m, Tail(ps)))

\* for parent in self.parents: is_free / is_file, each on a new path object
RECURSIVE check_parents(_, _)
check_parents(m, ps) ==
    IF ps = <<>> THEN Return(m, Nil)
    ELSE Bind(type(m, Head(ps)), LAMBDA t :
            IF t.val = "" THEN Raise(t.m, "StoragePathInvalid")
            ELSE IF t.val = "file" THEN Raise(t.m, "StoragePathInvalid")
            ELSE check_parents(t.m, Tail(ps)))

\* except StoragePathNotDir: raise StoragePathInvalid
ParentNotDir(r) == IF r.exc = "StoragePathNotDir" THEN Raise(r.m, "StoragePathInvalid") ELSE r

RECURSIVE mkdir(_, _, _, _)

\* (mutant) make_parents is ignored: the ancestors are required, not created
mkdir_ignoring_make_parents(m, self, t, make_parents, exist_ok) ==
    IF is_root(self)
    THEN IF ~exist_ok THEN Raise(m, "StoragePathInvalid") ELSE Return(m, Nil)
    ELSE IF t = "file" THEN Raise(m, "StoragePathNotDir")
    ELSE IF t = "dir"
         THEN IF ~exist_ok THEN Raise(m, "StoragePathNotFree") ELSE Return(m, Nil)
    ELSE Bind(check_parents(m, parents(self)), LAMBDA pre : Storage_mkdir(pre.m, self))

\* (mutant) with exist_ok the command is sent for a directory that exists
mkdir_existing_sent(m, self, t, make_parents, exist_ok) ==
    IF is_root(self)
    THEN IF ~exist_ok THEN Raise(m, "StoragePathInvalid") ELSE Return(m, Nil)
    ELSE IF t = "file" THEN Raise(m, "StoragePathNotDir")
    ELSE IF t = "dir" /\ ~exist_ok THEN Raise(m, "StoragePathNotFree")
    ELSE Bind(IF make_parents THEN ParentNotDir(mkdir(m, parent(self), TRUE, TRUE))
              ELSE check_parents(m, parents(self)),
              LAMBDA pre : Swallow(Storage_mkdir(pre.m, self), Nil))

\* FlipperPath.mkdir on an object whose cached type is t
mkdir_typed(m, self, t, make_parents, exist_ok) ==
    IF is_root(self)
    THEN IF ~exist_ok THEN Raise(m, "StoragePathInvalid") ELSE Return(m, Nil)
    ELSE IF t = "file" THEN Raise(m, "StoragePathNotDir")
    ELSE IF t = "dir"
         THEN IF ~exist_ok THEN Raise(m, "StoragePathNotFree") ELSE Return(m, Nil)
    ELSE Bind(IF make_parents THEN ParentNotDir(mkdir(m, parent(self), TRUE, TRUE))
              ELSE check_parents(m, parents(self)),
              LAMBDA pre : Storage_mkdir(pre.m, self))

\* FlipperPath.mkdir on a new object: is_root() comes first, then the type is
\* looked up once (is_file and is_dir share the cached value)
mkdir(m, self, make_parents, exist_ok) ==
    IF is_root(self) THEN mkdir_typed(m, self, "", make_parents, exist_ok)
    ELSE Bind(type(m, self), LAMBDA t : mkdir_typed(t.m, self, t.val, make_parents, exist_ok))

\* for x in xs: self._flipper.storage.remove(x['path'])
RECURSIVE remove_each(_, _)
remove_each(m, xs) ==
    IF xs = <<>> THEN Return(m, Nil)
    ELSE Bind(Storage_remove(m, Head(xs).path), LAMBDA r : remove_each(r.m, Tail(xs)))

\* sorted(dirs, key=lambda x: len(x['path'].parts), reverse=True): a stable
\* sort, deepest first
RECURSIVE InsertByDepth(_, _)
InsertByDepth(x, s) ==
    IF s = <<>> THEN <<x>>
    ELSE IF Len(Head(s).path) >= Len(x.path) THEN <<Head(s)>> \o InsertByDepth(x, Tail(s))
    ELSE <<x>> \o s

RECURSIVE SortInto(_, _)
SortInto(acc, rest) ==
    IF rest = <<>> THEN acc ELSE SortInto(InsertByDepth(Head(rest), acc), Tail(rest))

\* (mutant) the directories are taken in the order of the tree reply
unsorted_dirs(dirs) == dirs

sorted_dirs(dirs) == SortInto(<<>>, dirs)

\* (mutant) the directories are removed before the files
remove_recursive_dirs_first(m, self, remove_contents) ==
    Bind(path_tree(m, self), LAMBDA t :
    Bind(remove_each(t.m, sorted_dirs(t.val.dirs)), LAMBDA dirs :
         IF Len(t.val.files) > 0
         THEN IF remove_contents THEN remove_each(dirs.m, t.val.files)
              ELSE Raise(dirs.m, "StorageException")
         ELSE Return(dirs.m, Nil)))

remove_recursive(m, self, remove_contents) ==
    Bind(path_tree(m, self), LAMBDA t :
    Bind(IF Len(t.val.files) > 0
         THEN IF remove_contents THEN remove_each(t.m, t.val.files)
              ELSE Raise(t.m, "StorageException")
         ELSE Return(t.m, Nil),
         LAMBDA files : remove_each(files.m, sorted_dirs(t.val.dirs))))

\* (mutant) the files of the directory are removed whatever remove_contents is
remove_flat_always_contents(m, self, remove_contents) ==
    Bind(_explorer(m, "list", self), LAMBDA list :
        IF Len(list.val.files) = 0
        THEN IF Len(list.val.dirs) > 0 THEN Raise(list.m, "StorageException")
             ELSE Return(list.m, Nil)
        ELSE IF Len(list.val.dirs) > 0 THEN Raise(list.m, "StorageException")
        ELSE remove_each(list.m, list.val.files))

\* (mutant) with remove_contents the files are left where they are
remove_flat_leaving_files(m, self, remove_contents) ==
    Bind(_explorer(m, "list", self), LAMBDA list :
        IF Len(list.val.files) = 0
        THEN IF Len(list.val.dirs) > 0 THEN Raise(list.m, "StorageException")
             ELSE Return(list.m, Nil)
        ELSE IF Len(list.val.dirs) > 0 THEN Raise(list.m, "StorageException")
        ELSE IF ~remove_contents THEN Raise(list.m, "StorageException")
        ELSE Return(list.m, Nil))

remove_flat(m, self, remove_contents) ==
    Bind(_explorer(m, "list", self), LAMBDA list :
        IF Len(list.val.files) = 0
        THEN IF Len(list.val.dirs) > 0 THEN Raise(list.m, "StorageException")
             ELSE Return(list.m, Nil)
        ELSE IF Len(list.val.dirs) > 0 THEN Raise(list.m, "StorageException")
        ELSE IF ~remove_contents THEN Raise(list.m, "StorageException")
        ELSE remove_each(list.m, list.val.files))

remove(m, self, recursive, remove_contents) ==
    Bind(IF recursive THEN remove_recursive(m, self, remove_contents)
         ELSE remove_flat(m, self, remove_contents),
         LAMBDA pre : Storage_remove(pre.m, self))

(***************************************************************************)
(* Storage.read and File (read, write).                                    *)
(***************************************************************************)
\* what the link hands over of the bytes the device sent: on a noisy link the
\* first byte arrives as another one
Carried(m, bytes) ==
    IF m.noisy /\ bytes # <<>> THEN <<"damaged">> \o Tail(bytes) ELSE bytes

\* self._serial_wrapper.read(size): the next size bytes the device sent
raw_read(m, file, size, pending) ==
    Return([m EXCEPT !.wire = Append(@, [cmd |-> "rawread", path |-> file, n |-> size])],
           Carried(m, SubSeq(pending, 1, size)))

\* except FlipperError as e: e.messate ... : the attribute does not exist
ReadExcept(r) == IF r.exc = "FlipperError" THEN Raise(r.m, "AttributeError") ELSE r

Storage_read(m, file) ==
    ReadExcept(Bind(send(m, Cmd("read", file)), LAMBDA r :
        IF r.val.nums[1].mag > 0 THEN raw_read(r.m, file, r.val.nums[1].mag, r.val.lines[1])
        ELSE Return(r.m, <<>>)))

\* (mutant) the read is attempted without asking whether the path exists
File_read_unasked(m, path) ==
    Bind(type(m, path), LAMBDA t :
        IF t.val \notin {"", "file"} THEN Raise(t.m, "StoragePathNotFile")
        ELSE Bind(path_stat(t.m, path), LAMBDA output :
             Bind(Storage_read(output.m, path), LAMBDA data :
                IF output.val.type = Nil THEN Raise(data.m, "KeyError")
                ELSE IF MD5(data.val) # output.val.md5 THEN Raise(data.m, "FlipperException")
                ELSE Return(data.m, [output.val EXCEPT !.data = data.val, !.size = Len(data.val)]))))

File_read(m, path) ==
    Bind(type(m, path), LAMBDA t :
        IF t.val = "" THEN Raise(t.m, "StoragePathFree")
        ELSE IF t.val # "file" THEN Raise(t.m, "StoragePathNotFile")
        ELSE Bind(path_stat(t.m, path), LAMBDA output :
             Bind(Storage_read(output.m, path), LAMBDA data :
                IF output.val.type = Nil THEN Raise(data.m, "KeyError")
                ELSE IF MD5(data.val) # output.val.md5 THEN Raise(data.m, "FlipperException")
                ELSE Return(data.m, [output.val EXCEPT !.data = data.val, !.size = Len(data.val)]))))

\* data.replace(b'\r\n', b'\x0d')
RECURSIVE replace_crlf(_)
replace_crlf(data) ==
    IF Len(data) < 2 THEN data
    ELSE IF data[1] = "CR" /\ data[2] = "LF" THEN <<"CR">> \o replace_crlf(Tail(Tail(data)))
    ELSE <<data[1]>> \o replace_crlf(Tail(data))

\* write(command), write(data), kill_cmd(): nothing is read back; the device
\* stores what reached it
write_stream(m, path, payload) ==
    Return([m EXCEPT !.fs = DevWrite(@, path, payload \o <<"ETX">>),
                     !.wire = @ \o <<[cmd |-> "write", path |-> path],
                                     [cmd |-> "payload", path |-> path, bytes |-> payload],
                                     [cmd |-> "kill", path |-> path]>>],
           Nil)

\* (mutant) an existing file is overwritten whatever overwrite is
File_write_overwriting(m, path, data, overwrite, create_parents) ==
    Bind(type(m, path), LAMBDA t :
        IF t.val = "dir" THEN Raise(t.m, "StoragePathNotFile")
        ELSE IF t.val \notin {"", "file"} THEN Raise(t.m, "StoragePathInvalid")
        ELSE Bind(type(t.m, parent(path)), LAMBDA pt :
                IF pt.val = "file" THEN Raise(pt.m, "StoragePathInvalid")
                ELSE Bind(IF create_parents THEN mkdir_typed(pt.m, parent(path), pt.val, TRUE, TRUE)
                          ELSE Return(pt.m, Nil),
                          LAMBDA pre : write_stream(pre.m, path, replace_crlf(data)))))

File_write(m, path, data, overwrite, create_parents) ==
    Bind(type(m, path), LAMBDA t :
        IF t.val = "file" /\ ~overwrite THEN Raise(t.m, "StoragePathNotFree")
        ELSE IF t.val = "dir" THEN Raise(t.m, "StoragePathNotFile")
        ELSE IF t.val \notin {"", "file"} THEN Raise(t.m, "StoragePathInvalid")
        ELSE Bind(type(t.m, parent(path)), LAMBDA pt :
                IF pt.val = "file" THEN Raise(pt.m, "StoragePathInvalid")
                ELSE Bind(IF create_parents THEN mkdir_typed(pt.m, parent(path), pt.val, TRUE, TRUE)
                          ELSE Return(pt.m, Nil),
                          LAMBDA pre : write_stream(pre.m, path, replace_crlf(data)))))

(***************************************************************************)
(* The storage specification: the device holds any well-formed tree of at  *)
(* most MaxNodes entries, and the caller invokes one operation after       *)
(* another, each on a new path object.                                     *)
(***************************************************************************)
RECURSIVE SubsetsUpTo(_, _)
SubsetsUpTo(U, n) ==
    IF n = 0 THEN {{}}
    ELSE SubsetsUpTo(U, n - 1) \cup {s \cup {x} : s \in SubsetsUpTo(U, n - 1), x \in U}

NonRoot == {p \in Universe : ~is_root(p)}

Filesystems(contents) ==
    {f \in UNION {[S -> {Dir} \cup {FileOf(d) : d \in contents}] : S \in SubsetsUpTo(NonRoot, MaxNodes)} :
        WellFormed(f)}

\* noisy: the link damages the raw bytes it carries to the caller
Start(f) == [fs |-> f, wire |-> <<>>, noisy |-> FALSE]

NotCalled == [op |-> "none"]
NoResult == [exc |-> "none", val |-> Nil]

Init ==
    /\ fs \in Filesystems({<<>>})
    /\ call = NotCalled
    /\ wire = <<>>
    /\ result = NoResult
    /\ ThreadedIdle
    /\ SendIdle
    /\ PureIdle

\* an operation ran to its end (normally or by raising): r is what it left
Finish(c, r) ==
    /\ Cardinality(DOMAIN r.m.fs) <= MaxNodes
    /\ fs' = r.m.fs
    /\ wire' = r.m.wire
    /\ call' = c
    /\ result' = [exc |-> r.exc, val |-> r.val]
    /\ UNCHANGED <<threadedVars, sendVars, pureVars>>

StatOp ==
    \E p \in Universe, extended \in BOOLEAN :
        Finish([op |-> "stat", path |-> p, extended |-> extended, before |-> fs],
               Storage_stat(Start(fs), p, extended))

MkdirOp ==
    \E p \in Universe, make_parents \in BOOLEAN, exist_ok \in BOOLEAN :
        Finish([op |-> "mkdir", path |-> p, make_parents |-> make_parents,
                exist_ok |-> exist_ok, before |-> fs],
               mkdir(Start(fs), p, make_parents, exist_ok))

RemoveOp ==
    \E p \in Universe, recursive \in BOOLEAN, remove_contents \in BOOLEAN :
        Finish([op |-> "remove", path |-> p, recursive |-> recursive,
                remove_contents |-> remove_contents, before |-> fs],
               remove(Start(fs), p, recursive, remove_contents))

Next == StatOp \/ MkdirOp \/ RemoveOp

vars == <<storageVars, threadedVars, sendVars, pureVars>>

Spec == Init /\ [][Next]_vars

(***************************************************************************)
(* The file specification: files are written and read back at two paths,   *)
(* one directly under the storage root and one inside a directory.         *)
(***************************************************************************)
MaxData == 2        \* bytes in a payload handed to File.write

Bytes == {"CR", "LF", "x"}
Payloads == SeqsUpTo(Bytes, MaxData)
FileTargets == {<<"/ext", "a">>, <<"/ext", "a", "b">>}

InitFile ==
    /\ fs \in {f \in Filesystems({<<>>}) : DOMAIN f \subseteq {<<"/ext", "a">>}}
    /\ call = NotCalled
    /\ wire = <<>>
    /\ result = NoResult
    /\ ThreadedIdle
    /\ SendIdle
    /\ PureIdle

\* what a read remembers of the call that came before it
Previous(c, r) ==
    IF c.op = "write"
    THEN [op |-> "write", path |-> c.path, data |-> c.data, exc |-> r.exc, before |-> c.before]
    ELSE [op |-> c.op, path |-> <<>>, data |-> <<>>, exc |-> r.exc, before |-> <<>>]

WriteOp ==
    \E p \in FileTargets, data \in Payloads, overwrite \in BOOLEAN, create_parents \in BOOLEAN :
        Finish([op |-> "write", path |-> p, data |-> data, overwrite |-> overwrite,
                create_parents |-> create_parents, before |-> fs],
               File_write(Start(fs), p, data, overwrite, create_parents))

ReadOp ==
    \E p \in FileTargets \cup {<<"/ext">>}, noisy \in BOOLEAN :
        Finish([op |-> "read", path |-> p, noisy |-> noisy, before |-> fs,
                prev |-> Previous(call, result)],
               File_read([Start(fs) EXCEPT !.noisy = noisy], p))

NextFile == WriteOp \/ ReadOp

SpecFile == InitFile /\ [][NextFile]_vars

(***************************************************************************)
(* Threaded (threaded.py): one Threaded object, the thread that calls its  *)
(* methods, and the Task threads it starts.  All of them use the same      *)
(* SerialWrapper.  th is the object with what it shares:                   *)
(* [watchdog, exec_thread, tasks, made, link].  Thread 0 is the calling    *)
(* thread; the Task threads are numbered from 1.                           *)
(***************************************************************************)
MaxTime == 2        \* ticks of the clock
MaxTimeout == 2     \* the longest watchdog timeout
MaxTasks == 2       \* Task threads started in one run
MaxWatchdogs == 2   \* Watchdog objects constructed in one run
MaxLink == 3        \* writes to the transport in one run

Timeouts == 1..MaxTimeout

Done(th) == [th |-> th, exc |-> "none"]
Failed(th, e) == [th |-> th, exc |-> e]

\* Watchdog.__init__ stores owner and timeout and does not call
\* Thread.__init__, so the object is no initialized Thread
Watchdog(id, timeout, t) == [id |-> id, timeout |-> timeout, born |-> t, initialized |-> FALSE]

\* Thread.start(): RuntimeError("thread.__init__() not called") unless the
\* Thread was initialized
Thread_start(thread) == IF thread.initialized THEN "none" ELSE "RuntimeError"

\* the slot is assigned before start() is called
set_watchdog_start(th) ==
    IF Thread_start(th.watchdog) = "none" THEN Done(th) ELSE Failed(th, Thread_start(th.watchdog))

set_watchdog(th, timeout, t) ==
    set_watchdog_start([th EXCEPT !.watchdog = Watchdog(th.made + 1, timeout, t), !.made = @ + 1])

\* Thread.is_alive() of a started Task: Task overrides Thread._stop, so the
\* thread is never marked as stopped and is_alive() stays True after run() ended
is_alive(th, id) == th.tasks[id] \in {"started", "sending", "ended"}

\* Task(func), start(): a new thread that is about to call func
start_task(th) == [th EXCEPT !.tasks = Append(@, "started"), !.exec_thread = Len(th.tasks) + 1]

exec(th, timeout, t) ==
    IF th.exec_thread # 0 THEN Failed(th, "Exception")
    ELSE IF timeout # 0 THEN set_watchdog(start_task(th), timeout, t)
    ELSE Done([start_task(th) EXCEPT !.watchdog = None])

\* a bare raise with no exception being handled is a RuntimeError
hush_watchdog(th) ==
    IF th.watchdog # None THEN Done([th EXCEPT !.watchdog = None]) ELSE Failed(th, "RuntimeError")

kill_cmd(th, by) == [th EXCEPT !.link = Append(@, [by |-> by, what |-> "kill"])]

\* Task._stop() sets an event that nothing waits for
stop_kills(th) == th.watchdog # None \/ (th.exec_thread # 0 /\ is_alive(th, th.exec_thread))

stop(th, by) ==
    Done([(IF stop_kills(th) THEN kill_cmd(th, by) ELSE th) EXCEPT !.watchdog = None, !.exec_thread = 0])

Owner == [watchdog |-> _watchdog, exec_thread |-> _exec_thread, tasks |-> tasks,
          made |-> made, link |-> link]

InFlight == {i \in 1..Len(tasks) : tasks[i] = "sending"} \cup (IF mainpc = "sending" THEN {0} ELSE {})

\* the bounds of a run
Within(th) ==
    /\ Len(th.tasks) <= MaxTasks
    /\ th.made <= MaxWatchdogs
    /\ Len(th.link) <= MaxLink

\* a method of the object ran to its end in the calling thread
Returned(op, timeout, r) ==
    /\ mainpc = "idle"
    /\ Within(r.th)
    /\ _watchdog' = r.th.watchdog
    /\ _exec_thread' = r.th.exec_thread
    /\ tasks' = r.th.tasks
    /\ made' = r.th.made
    /\ link' = r.th.link
    /\ tcall' = [op |-> op, timeout |-> timeout, exc |-> r.exc,
                 before |-> Snapshot(_watchdog, _exec_thread, link),
                 after |-> Snapshot(r.th.watchdog, r.th.exec_thread, r.th.link)]
    /\ UNCHANGED <<now, storageVars, sendVars, pureVars>>

\* the calling thread is inside SerialWrapper.send from here on
Sending(op, timeout, r) ==
    /\ mainpc = "idle"
    /\ Len(r.th.link) < MaxLink
    /\ mainpc' = "sending"
    /\ link' = Append(r.th.link, [by |-> 0, what |-> "send"])
    /\ _watchdog' = r.th.watchdog
    /\ _exec_thread' = r.th.exec_thread
    /\ made' = r.th.made
    /\ tcall' = [op |-> op, timeout |-> timeout, exc |-> r.exc,
                 before |-> Snapshot(_watchdog, _exec_thread, link),
                 after |-> Snapshot(r.th.watchdog, r.th.exec_thread, r.th.link)]
    /\ UNCHANGED <<tasks, now, storageVars, sendVars, pureVars>>

SetWatchdog ==
    \E timeout \in Timeouts :
        /\ Returned("set_watchdog", timeout, set_watchdog(Owner, timeout, now))
        /\ UNCHANGED mainpc

\* Log.attach, Input.dump, Subghz.rx, Ikey.read/write/emulate:
\* self._set_watchdog(timeout), then self._serial_wrapper.send(...)
Guarded(r, timeout) ==
    IF r.exc # "none" THEN Returned("guarded", timeout, r) /\ UNCHANGED mainpc
    ELSE Sending("guarded", timeout, r)

GuardedCall == \E timeout \in Timeouts : Guarded(set_watchdog(Owner, timeout, now), timeout)

\* MusicPlayer.play(code, duration): self._exec(func=_run, timeout=duration)
Exec ==
    \E timeout \in {0} \cup Timeouts :
        /\ Returned("exec", timeout, exec(Owner, timeout, now))
        /\ UNCHANGED mainpc

HushWatchdog == Returned("hush_watchdog", 0, hush_watchdog(Owner)) /\ UNCHANGED mainpc

Stop == Returned("stop", 0, stop(Owner, 0)) /\ UNCHANGED mainpc

\* any other command of the calling thread on the shared transport
CallerSend == Sending("send", 0, Done(Owner))

\* the reply came: send returns in the calling thread
CallerSendReturns ==
    /\ mainpc = "sending"
    /\ mainpc' = "idle"
    /\ UNCHANGED <<_watchdog, _exec_thread, tasks, made, link, now, tcall, storageVars, sendVars, pureVars>>

\* Task.run: self.func(...) calls self._serial_wrapper.send
TaskSend ==
    \E i \in 1..Len(tasks) :
        /\ tasks[i] = "started"
        /\ Len(link) < MaxLink
        /\ tasks' = [tasks EXCEPT ![i] = "sending"]
        /\ link' = Append(link, [by |-> i, what |-> "send"])
        /\ UNCHANGED <<_watchdog, _exec_thread, made, mainpc, now, tcall, storageVars, sendVars, pureVars>>

\* func returned; run() then reads self._exec_thread, which a Task does not
\* have: the thread ends with AttributeError and the owner's slot stays
TaskEnds ==
    \E i \in 1..Len(tasks) :
        /\ tasks[i] = "sending"
        /\ tasks' = [tasks EXCEPT ![i] = "ended"]
        /\ UNCHANGED <<_watchdog, _exec_thread, made, link, mainpc, now, tcall, storageVars, sendVars, pureVars>>

Tick ==
    /\ now < MaxTime
    /\ now' = now + 1
    /\ UNCHANGED <<_watchdog, _exec_thread, tasks, made, link, mainpc, tcall, storageVars, sendVars, pureVars>>

InitThreaded ==
    /\ fs = <<>>
    /\ call = NotCalled
    /\ wire = <<>>
    /\ result = NoResult
    /\ ThreadedIdle
    /\ SendIdle
    /\ PureIdle

NextThreaded ==
    \/ SetWatchdog
    \/ GuardedCall
    \/ Exec
    \/ HushWatchdog
    \/ Stop
    \/ CallerSend
    \/ CallerSendReturns
    \/ TaskSend
    \/ TaskEnds
    \/ Tick

SpecThreaded == InitThreaded /\ [][NextThreaded]_vars

\* the threads and the clock make progress; the caller is free not to call
SpecThreadedFair ==
    /\ InitThreaded
    /\ [][NextThreaded]_vars
    /\ WF_vars(Tick)
    /\ WF_vars(TaskSend)
    /\ WF_vars(TaskEnds)
    /\ WF_vars(CallerSendReturns)

(***************************************************************************)
(* The transports' _send (serial.py) at the level of bytes.  The device    *)
(* answers a command with its echo, a reply, the terminator and possibly   *)
(* more, and the answer arrives cut into chunks.                           *)
(***************************************************************************)
MaxReply == 2       \* bytes in the device's reply
MaxTrail == 1       \* bytes the device sends after the terminator
MaxCuts == 2        \* places where the device's answer is cut into chunks

ReadCap == 8388608  \* 1024 * 1024 * 8

Prompt == <<"CR", "LF", ">", ":", " ">>     \* '\r\n>: ', the default of read_until
LineEnd == <<"CR", "LF">>                   \* '\r\n', what Storage.read passes
Terminators == {Prompt, LineEnd}
Commands == {<<"c">>}
Replies == SeqsUpTo({"r", "CR", "LF"}, MaxReply)
Trails == SeqsUpTo({"t"}, MaxTrail)

EndsWith(s, t) == Len(t) <= Len(s) /\ SubSeq(s, Len(s) - Len(t) + 1, Len(s)) = t
StartsWith(s, t) == Len(t) <= Len(s) /\ SubSeq(s, 1, Len(t)) = t
Contains(s, t) == \E i \in 0..(Len(s) - Len(t)) : SubSeq(s, i + 1, i + Len(t)) = t
removeprefix(s, t) == IF StartsWith(s, t) THEN SubSeq(s, Len(t) + 1, Len(s)) ELSE s
removesuffix(s, t) == IF EndsWith(s, t) THEN SubSeq(s, 1, Len(s) - Len(t)) ELSE s

Smallest(S) == CHOOSE n \in S : \A k \in S : n <= k

RECURSIVE Flatten(_)
Flatten(chunks) == IF chunks = <<>> THEN <<>> ELSE Head(chunks) \o Flatten(Tail(chunks))

\* the chunks of s when it is cut after the positions in cuts
RECURSIVE ChunksFrom(_, _, _)
ChunksFrom(s, cuts, from) ==
    IF from > Len(s) THEN <<>>
    ELSE IF \E c \in cuts : c >= from
         THEN <<SubSeq(s, from, Smallest({c \in cuts : c >= from}))>>
              \o ChunksFrom(s, cuts, Smallest({c \in cuts : c >= from}) + 1)
    ELSE <<SubSeq(s, from, Len(s))>>

\* the echo of what was written: the same bytes and LF
Echo(payload) == payload \o <<"LF">>

Answer(payload, until, reply, trail) == Echo(payload) \o reply \o until \o trail

\* serial.Serial.read_until(expected, size) with timeout=None: how many bytes
\* of the stream it takes, 0 when the stream ends before it can return
\* (it then waits for more)
ReadUntilStops(stream, expected, size) ==
    {n \in 1..Len(stream) : EndsWith(SubSeq(stream, 1, n), expected) \/ n >= size}

read_until(stream, expected, size) ==
    IF ReadUntilStops(stream, expected, size) = {} THEN 0
    ELSE Smallest(ReadUntilStops(stream, expected, size))

Waiting == [exc |-> "waiting", val |-> <<>>]

\* the second read_until of LocalSerial._send, on what the first one left
LocalSerial_receive(rest, until) ==
    IF read_until(rest, until, Len(rest) + 1) = 0 THEN Waiting
    ELSE [exc |-> "none",
          val |-> removesuffix(SubSeq(rest, 1, read_until(rest, until, Len(rest) + 1)), until)]

\* what the first read_until of LocalSerial._send leaves of the stream
AfterEcho(payload, stream, cap) ==
    SubSeq(stream, read_until(stream, payload \o <<"LF">>, cap) + 1, Len(stream))

\* LocalSerial._send with the size limit cap on the read of the echo
LocalSerial_send_within(payload, until, stream, cap) ==
    IF read_until(stream, payload \o <<"LF">>, cap) = 0 THEN Waiting
    ELSE LocalSerial_receive(AfterEcho(payload, stream, cap), until)

LocalSerial_send(payload, until, stream) == LocalSerial_send_within(payload, until, stream, ReadCap)

\* while read_until not in line and len(line) < cap: line += self._ws.recv()
RECURSIVE WSSerial_receive_within(_, _, _, _)
WSSerial_receive_within(line, chunks, until, cap) ==
    IF Contains(line, until) \/ Len(line) >= cap THEN [exc |-> "none", val |-> line]
    ELSE IF chunks = <<>> THEN Waiting
    ELSE WSSerial_receive_within(line \o Head(chunks), Tail(chunks), until, cap)

WSSerial_receive(line, chunks, until) == WSSerial_receive_within(line, chunks, until, ReadCap)

WSSerial_strip(r, payload, until) ==
    IF r.exc # "none" THEN r
    ELSE [exc |-> "none", val |-> removesuffix(removeprefix(r.val, payload \o <<"LF">>), until)]

WSSerial_send(payload, until, chunks) ==
    WSSerial_strip(WSSerial_receive(<<>>, chunks, until), payload, until)

CutSets(n) == SubsetsUpTo(1..(n - 1), MaxCuts)

InitSend ==
    /\ fs = <<>>
    /\ call = NotCalled
    /\ wire = <<>>
    /\ result = NoResult
    /\ ThreadedIdle
    /\ transport \in {"local", "ws"}
    /\ request \in {[payload |-> c \o <<"CR">>, read_until |-> u] : c \in Commands, u \in Terminators}
    /\ \E reply \in Replies, trail \in Trails :
        \E cuts \in CutSets(Len(Answer(request.payload, request.read_until, reply, trail))) :
            incoming = [reply |-> reply, trail |-> trail,
                        chunks |-> ChunksFrom(Answer(request.payload, request.read_until, reply, trail),
                                              cuts, 1)]
    /\ outgoing = <<>>
    /\ answer = NotSent
    /\ PureIdle

Sent(r) ==
    /\ outgoing = <<>>
    /\ outgoing' = <<request.payload>>
    /\ answer' = r
    /\ UNCHANGED <<transport, request, incoming, storageVars, threadedVars, pureVars>>

LocalSend ==
    /\ transport = "local"
    /\ Sent(LocalSerial_send(request.payload, request.read_until, Flatten(incoming.chunks)))

WsSend ==
    /\ transport = "ws"
    /\ Sent(WSSerial_send(request.payload, request.read_until, incoming.chunks))

NextSend == LocalSend \/ WsSend

SpecSend == InitSend /\ [][NextSend]_vars

(***************************************************************************)
(* The capped specification: the same send with the hard cap scaled down   *)
(* to a few bytes, and a device that answers the echo and then reply bytes *)
(* without ever sending the terminator.                                    *)
(***************************************************************************)
SmallCap == 4       \* the hard cap of 8 MiB, scaled down
MaxFlood == 6       \* reply bytes the device has sent so far

Floods == SeqsUpTo({"r"}, MaxFlood)

\* the bytes the second read_until of LocalSerial._send has taken in
LocalSerial_held(payload, until, stream, cap) ==
    IF read_until(stream, payload \o <<"LF">>, cap) = 0 THEN 0
    ELSE IF read_until(AfterEcho(payload, stream, cap), until, Len(stream) + 1) = 0
         THEN Len(AfterEcho(payload, stream, cap))
    ELSE read_until(AfterEcho(payload, stream, cap), until, Len(stream) + 1)

\* len(line) when the loop of WSSerial._send is left, or all that came when
\* the loop is still waiting
WSSerial_held(chunks, until, cap) ==
    IF WSSerial_receive_within(<<>>, chunks, until, cap).exc = "waiting" THEN Len(Flatten(chunks))
    ELSE Len(WSSerial_receive_within(<<>>, chunks, until, cap).val)

InitCap ==
    /\ fs = <<>>
    /\ call = NotCalled
    /\ wire = <<>>
    /\ result = NoResult
    /\ ThreadedIdle
    /\ transport \in {"local", "ws"}
    /\ request \in {[payload |-> c \o <<"CR">>, read_until |-> u] : c \in Commands, u \in Terminators}
    /\ \E reply \in Floods :
        \E cuts \in CutSets(Len(Echo(request.payload) \o reply)) :
            incoming = [reply |-> reply, trail |-> <<>>,
                        chunks |-> ChunksFrom(Echo(request.payload) \o reply, cuts, 1)]
    /\ outgoing = <<>>
    /\ answer = NotSent
    /\ PureIdle

\* r is how far the send got, held the bytes it holds
SentHolding(r, held) ==
    /\ outgoing = <<>>
    /\ outgoing' = <<request.payload>>
    /\ answer' = [exc |-> r.exc, val |-> r.val, held |-> held]
    /\ UNCHANGED <<transport, request, incoming, storageVars, threadedVars, pureVars>>

LocalSendCapped ==
    /\ transport = "local"
    /\ SentHolding(LocalSerial_send_within(request.payload, request.read_until,
                                           Flatten(incoming.chunks), SmallCap),
                   LocalSerial_held(request.payload, request.read_until,
                                    Flatten(incoming.chunks), SmallCap))

WsSendCapped ==
    /\ transport = "ws"
    /\ SentHolding(WSSerial_strip(WSSerial_receive_within(<<>>, incoming.chunks,
                                                          request.read_until, SmallCap),
                                  request.payload, request.read_until),
                   WSSerial_held(incoming.chunks, request.read_until, SmallCap))

NextCap == LocalSendCapped \/ WsSendCapped

SpecCap == InitCap /\ [][NextCap]_vars

(***************************************************************************)
(* SerialWrapper.send after _send returned: the text is checked for the    *)
(* error shape.  A text is a sequence of tokens: "w" is a word character,  *)
(* " " a blank, "CR" and "LF" the line-break characters, ">" any other     *)
(* printable character, and "error:" the six characters of that word with  *)
(* its colon.                                                              *)
(***************************************************************************)
MaxText == 5        \* tokens in a text returned by _send

TextTokens == {"w", " ", "CR", "LF", ">", "error:"}
Texts == SeqsUpTo(TextTokens, MaxText)

IsWordChar(t) == t = "w"                    \* \w
IsWhitespace(t) == t \in {" ", "CR", "LF"}  \* \s
IsDot(t) == t # "LF"                        \* . (no DOTALL)

\* the longest run of tokens from position i on that satisfy the class
RECURSIVE WordRun(_, _)
WordRun(text, i) ==
    IF i <= Len(text) /\ IsWordChar(text[i]) THEN 1 + WordRun(text, i + 1) ELSE 0

RECURSIVE DotRun(_, _)
DotRun(text, i) ==
    IF i <= Len(text) /\ IsDot(text[i]) THEN 1 + DotRun(text, i + 1) ELSE 0

\* "\w+\serror:\s.*" matched with the words ending before position n + 1:
\* the matched text, or the empty tuple when there is no match there
MatchAfterWords(text, n) ==
    IF /\ n >= 1
       /\ Len(text) >= n + 3
       /\ IsWhitespace(text[n + 1])
       /\ text[n + 2] = "error:"
       /\ IsWhitespace(text[n + 3])
    THEN SubSeq(text, 1, n + 3 + DotRun(text, n + 4))
    ELSE <<>>

\* (mutant) pattern.search: the shape is looked for anywhere in the text
RECURSIVE error_search(_)
error_search(received) ==
    IF received = <<>> THEN <<>>
    ELSE IF MatchAfterWords(received, WordRun(received, 1)) # <<>>
         THEN MatchAfterWords(received, WordRun(received, 1))
    ELSE error_search(Tail(received))

\* pattern.match(received): the match starts at the first character
_error_check(received) == MatchAfterWords(received, WordRun(received, 1))

\* received = self._send(...); error = self._error_check(received);
\* a SerialException of _send is raised again
send_checked(sent) ==
    IF sent.exc # "none" THEN sent
    ELSE IF _error_check(sent.val) # <<>> THEN [exc |-> "FlipperError", val |-> _error_check(sent.val)]
    ELSE sent

InitCheck ==
    /\ fs = <<>>
    /\ call = NotCalled
    /\ wire = <<>>
    /\ result = NoResult
    /\ ThreadedIdle
    /\ SendIdle
    /\ input \in {[exc |-> "none", val |-> t] : t \in Texts}
                    \cup {[exc |-> "SerialException", val |-> <<>>]}
    /\ outcome = NotApplied

Applied(r) ==
    /\ outcome = NotApplied
    /\ outcome' = r
    /\ UNCHANGED <<input, storageVars, threadedVars, sendVars>>

SendChecks == Applied(send_checked(input))

NextCheck == SendChecks

SpecCheck == InitCheck /\ [][NextCheck]_vars

(***************************************************************************)
(* The transports' _handle_serial_exception: what a link operation reports *)
(* when the library underneath raises.  The libraries' exception classes   *)
(* are named as the libraries name them; pyserial's SerialException is     *)
(* written "serial.SerialException" to keep it apart from pyflipper's.     *)
(***************************************************************************)
LinkOps == {"send", "write", "read", "kill_cmd", "close"}

\* what pyserial raises: a timed-out write, a failed port, a closed port
LocalRaises == {"SerialTimeoutException", "serial.SerialException", "PortNotOpenError"}

\* what a websocket's recv/send raise: the timeout the code expects
\* (socket.timeout) and the library's own classes
WsRaises == {"socket.timeout", "WebSocketTimeoutException", "WebSocketConnectionClosedException",
             "WebSocketProtocolException", "WebSocketPayloadException", "WebSocketException"}

\* the class and the classes it derives from
Bases(cls) ==
    CASE cls \in {"SerialTimeoutException", "PortNotOpenError"} -> {cls, "serial.SerialException"}
      [] cls \in {"WebSocketTimeoutException", "WebSocketConnectionClosedException",
                  "WebSocketProtocolException", "WebSocketPayloadException"} -> {cls, "WebSocketException"}
      [] OTHER -> {cls}

IsInstance(cls, base) == base \in Bases(cls)

\* the except clauses, in their order; anything else passes through
LocalSerial_handle(raised) ==
    IF raised = "none" THEN "none"
    ELSE IF IsInstance(raised, "SerialTimeoutException") THEN "FlipperTimeout"
    ELSE IF IsInstance(raised, "serial.SerialException") THEN "SerialException"
    ELSE raised

WSSerial_handle(raised) ==
    IF raised = "none" THEN "none"
    ELSE IF IsInstance(raised, "socket.timeout") THEN "FlipperTimeout"
    ELSE IF IsInstance(raised, "WebSocketException") THEN "SerialException"
    ELSE raised

\* WSSerial._clear_buffer: recv() is repeated until it raises; drained is
\* what it raised.  socket.timeout is the expected end.
WSSerial_clear_buffer(drained) ==
    WSSerial_handle(IF IsInstance(drained, "socket.timeout") THEN "none" ELSE drained)

\* one operation of the transport: raised is what the library raised in it
\* ("none" when it did not), drained how the drain of a websocket send ended
link_op(t, op, drained, raised) ==
    IF t = "local" THEN LocalSerial_handle(raised)
    ELSE IF op = "send" /\ WSSerial_clear_buffer(drained) # "none"
         THEN WSSerial_handle(WSSerial_clear_buffer(drained))
    ELSE WSSerial_handle(raised)

LinkInputs ==
    {[transport |-> "local", op |-> op, drained |-> "none", raised |-> r] :
        op \in LinkOps, r \in LocalRaises \cup {"none"}}
    \cup {[transport |-> "ws", op |-> op, drained |-> "none", raised |-> r] :
        op \in LinkOps \ {"send"}, r \in WsRaises \cup {"none"}}
    \cup {[transport |-> "ws", op |-> "send", drained |-> d, raised |-> r] :
        d \in WsRaises, r \in WsRaises \cup {"none"}}

InitLink ==
    /\ fs = <<>>
    /\ call = NotCalled
    /\ wire = <<>>
    /\ result = NoResult
    /\ ThreadedIdle
    /\ SendIdle
    /\ input \in LinkInputs
    /\ outcome = NotApplied

LinkOp == Applied([exc |-> link_op(input.transport, input.op, input.drained, input.raised), val |-> <<>>])

NextLink == LinkOp

SpecLink == InitLink /\ [][NextLink]_vars

(***************************************************************************)
(* PureFlipperPath(text): pathlib's parsing with _FlipperFlavour.  Here a  *)
(* text is a sequence of characters and a part is such a sequence.         *)
(***************************************************************************)
MaxPath == 6        \* characters in a path text

PathChars == {"/", "e", "x", "t", "."}
PathTexts == SeqsUpTo(PathChars, MaxPath)

\* the members of _FlipperFlavour.storages that the characters can spell
storage_texts == {<<"/", "e", "x", "t">>}

\* str.split(sep): the pieces between the separators, empty ones included
RECURSIVE split(_, _)
split(text, piece) ==
    IF text = <<>> THEN <<piece>>
    ELSE IF Head(text) = "/" THEN <<piece>> \o split(Tail(text), <<>>)
    ELSE split(Tail(text), Append(piece, Head(text)))

\* part[:4]
Prefix4(part) == SubSeq(part, 1, IF Len(part) < 4 THEN Len(part) ELSE 4)

\* _FlipperFlavour.splitroot: part[5:] leaves out the character after the storage
splitroot(part) ==
    IF part # <<>> /\ part[1] = "/" /\ Prefix4(part) \in storage_texts
    THEN IF Len(part) = 4 THEN [drv |-> <<>>, root |-> Prefix4(part), rel |-> <<>>]
         ELSE [drv |-> Prefix4(part), root |-> <<"/">>, rel |-> SubSeq(part, 6, Len(part))]
    ELSE [drv |-> <<>>, root |-> <<>>, rel |-> part]

\* pathlib: the pieces of rel that are neither empty nor "."
IsSegment(piece) == piece # <<>> /\ piece # <<".">>

\* pathlib's parse_parts for one argument: drv + root, when there is one,
\* and then the segments
parts_of(sr) ==
    (IF sr.drv \o sr.root # <<>> THEN <<sr.drv \o sr.root>> ELSE <<>>)
        \o SelectSeq(split(sr.rel, <<>>), IsSegment)

\* str.rstrip('/')
RECURSIVE rstrip(_)
rstrip(text) ==
    IF text # <<>> /\ text[Len(text)] = "/" THEN rstrip(SubSeq(text, 1, Len(text) - 1)) ELSE text

\* PureFlipperPath.is_absolute: self.parts[0] of an empty tuple is an IndexError
is_absolute_checked(parts) ==
    IF parts = <<>> THEN [exc |-> "IndexError", val |-> <<>>]
    ELSE IF rstrip(parts[1]) \notin storage_texts THEN [exc |-> "StoragePathInvalid", val |-> <<>>]
    ELSE [exc |-> "none", val |-> parts]

PureFlipperPath(text) == is_absolute_checked(parts_of(splitroot(text)))

InitPath ==
    /\ fs = <<>>
    /\ call = NotCalled
    /\ wire = <<>>
    /\ result = NoResult
    /\ ThreadedIdle
    /\ SendIdle
    /\ input \in PathTexts
    /\ outcome = NotApplied

NewPath == Applied(PureFlipperPath(input))

NextPath == NewPath

SpecPath == InitPath /\ [][NextPath]_vars

(***************************************************************************)
(* The listing specification: Storage.list on every path of every           *)
(* filesystem, with files of two sizes.                                     *)
(***************************************************************************)
Storage_list(m, path) == _explorer(m, "list", path)

InitList ==
    /\ fs \in Filesystems({<<>>, <<"x">>})
    /\ call = NotCalled
    /\ wire = <<>>
    /\ result = NoResult
    /\ ThreadedIdle
    /\ SendIdle
    /\ PureIdle

ListOp ==
    \E p \in Universe :
        Finish([op |-> "list", path |-> p, before |-> fs], Storage_list(Start(fs), p))

NextList == ListOp

SpecList == InitList /\ [][NextList]_vars

(***************************************************************************)
(* utils.parse_fs_size on the characters of a size text.                   *)
(***************************************************************************)
MaxDigits == 3      \* digits before the decimal point of a magnitude
MaxFraction == 1    \* digits after the decimal point of a magnitude

DigitSeq == <<"0", "1", "2", "3", "4", "5", "6", "7", "8", "9">>
SizeDigits == {"0", "1", "2", "5", "7"}
Suffixes == {<<>>, <<"b">>, <<"B">>, <<"K", "i", "B">>, <<"M", "i", "B">>,
             <<"G", "i", "B">>, <<"T", "i", "B">>}

\* magnitudes "<digits>", "<digits>.<digits>", "<digits>." and ".<digits>"
Magnitudes ==
    (SeqsUpTo(SizeDigits, MaxDigits) \ {<<>>})
        \cup {w \o <<".">> \o f : w \in SeqsUpTo(SizeDigits, MaxDigits), f \in SeqsUpTo(SizeDigits, MaxFraction)}

SizeTexts == {mag \o gap \o suffix : mag \in Magnitudes, gap \in {<<>>, <<" ">>}, suffix \in Suffixes}

IsDigit(c) == \E i \in DOMAIN DigitSeq : DigitSeq[i] = c
DigitValue(c) == (CHOOSE i \in DOMAIN DigitSeq : DigitSeq[i] = c) - 1

RECURSIVE DecimalValue(_)
DecimalValue(digits) ==
    IF digits = <<>> THEN 0
    ELSE DecimalValue(SubSeq(digits, 1, Len(digits) - 1)) * 10 + DigitValue(digits[Len(digits)])

AllDigits(text) == text # <<>> /\ \A i \in DOMAIN text : IsDigit(text[i])

\* str.strip()
RECURSIVE strip(_)
strip(text) ==
    IF text # <<>> /\ Head(text) = " " THEN strip(Tail(text))
    ELSE IF text # <<>> /\ text[Len(text)] = " " THEN strip(SubSeq(text, 1, Len(text) - 1))
    ELSE text

\* int(text): surrounding blanks are allowed, the rest must be digits
int_of(text) ==
    IF AllDigits(strip(text)) THEN [exc |-> "none", val |-> DecimalValue(strip(text))]
    ELSE [exc |-> "ValueError", val |-> 0]

Dots(text) == {i \in DOMAIN text : text[i] = "."}
DotOf(text) == CHOOSE i \in Dots(text) : TRUE
Whole(text) == SubSeq(text, 1, DotOf(text) - 1)
Fraction(text) == SubSeq(text, DotOf(text) + 1, Len(text))

\* a text float() accepts: digits around one point, at least one digit
IsFloatText(text) ==
    /\ Cardinality(Dots(text)) = 1
    /\ Len(text) >= 2
    /\ \A i \in DOMAIN text : i \in Dots(text) \/ IsDigit(text[i])

\* int(float(text) * unit): the product cut to whole bytes
float_scaled(text, unit) ==
    IF IsFloatText(text)
    THEN [exc |-> "none",
          val |-> (DecimalValue(Whole(text) \o Fraction(text)) * unit) \div (10 ^ Len(Fraction(text)))]
    ELSE [exc |-> "ValueError", val |-> 0]

int_scaled(text, unit) ==
    IF int_of(text).exc # "none" THEN int_of(text)
    ELSE [exc |-> "none", val |-> int_of(text).val * unit]

\* a unit other than KiB, MiB, GiB is left a str: value * unit is then a
\* TypeError for a float, and for an int a repeated text int() rejects
unknown_unit(text) ==
    IF Dots(text) # {} /\ IsFloatText(text) THEN [exc |-> "TypeError", val |-> 0]
    ELSE [exc |-> "ValueError", val |-> 0]

\* (mutant) the magnitude is rounded up to whole units before it is scaled
scaled_whole_units(text, unit) ==
    IF unit = 0 THEN unknown_unit(text)
    ELSE IF Dots(text) # {}
         THEN IF IsFloatText(text)
              THEN [exc |-> "none", val |-> (DecimalValue(Whole(text)) + 1) * unit]
              ELSE [exc |-> "ValueError", val |-> 0]
    ELSE int_scaled(text, unit)

\* lines 21-26; unit 0 stands for a unit that is none of the three
scaled(text, unit) ==
    IF unit = 0 THEN unknown_unit(text)
    ELSE IF Dots(text) # {} THEN float_scaled(text, unit)
    ELSE int_scaled(text, unit)

\* lines 14-19
unit_of(suffix) ==
    IF suffix = <<"K", "i", "B">> THEN 1024
    ELSE IF suffix = <<"M", "i", "B">> THEN 1024 * 1024
    ELSE IF suffix = <<"G", "i", "B">> THEN 1024 * 1024 * 1024
    ELSE 0

\* value[-3:] and value[:-3]
Last3(value) == SubSeq(value, IF Len(value) < 3 THEN 1 ELSE Len(value) - 2, Len(value))
ButLast3(value) == SubSeq(value, 1, Len(value) - 3)

parse_fs_size_text(value) ==
    IF EndsWith(value, <<"i", "B">>) THEN scaled(strip(ButLast3(value)), unit_of(Last3(value)))
    ELSE IF EndsWith(value, <<"b">>) \/ EndsWith(value, <<"B">>)
         THEN int_of(SubSeq(value, 1, Len(value) - 1))
    ELSE int_of(strip(value))

\* the texts whose product of digits and unit the checker's integers hold
\* (Python's integers have no such limit)
Fits(text) ==
    unit_of(Last3(text)) = 0
        \/ DecimalValue(SelectSeq(ButLast3(text), IsDigit)) <= 2147483647 \div unit_of(Last3(text))

\* texts that are no size: letters, the empty text, a letter before the unit
ResidueTexts == {<<>>, <<"a", "b", "c">>, <<"1", "2", "x", "B">>, <<"x", "K", "i", "B">>}

InitSize ==
    /\ fs = <<>>
    /\ call = NotCalled
    /\ wire = <<>>
    /\ result = NoResult
    /\ ThreadedIdle
    /\ SendIdle
    /\ input \in {text \in SizeTexts : Fits(text)} \cup ResidueTexts
    /\ outcome = NotApplied

\* the returned integer is kept in a one-element tuple
Boxed(r) == [exc |-> r.exc, val |-> <<r.val>>]

ParseSize == Applied(Boxed(parse_fs_size_text(input)))

NextSize == ParseSize

SpecSize == InitSize /\ [][NextSize]_vars

(***************************************************************************)
(* File.write at the level of bytes: write(command), write(data) and       *)
(* kill_cmd() on the transport.  A port is [buffer, line]: buffer holds    *)
(* the bytes the caller wrote that the operating system has not sent yet,   *)
(* line the bytes that reached the device.                                  *)
(***************************************************************************)
NewPort == [buffer |-> <<>>, line |-> <<>>]

\* the operating system sends up to n bytes of the buffer
Transmitted(port, n) ==
    [buffer |-> SubSeq(port.buffer, Min(n, Len(port.buffer)) + 1, Len(port.buffer)),
     line |-> port.line \o SubSeq(port.buffer, 1, Min(n, Len(port.buffer)))]

\* in the end whatever is left in the buffer is sent
Flushed(port) == Transmitted(port, Len(port.buffer))

\* serial.Serial.write returns when the bytes are in the output buffer
LocalSerial_write(port, msg) == [port EXCEPT !.buffer = @ \o msg]

\* reset_output_buffer() discards what the buffer holds, then write(b'\x03')
LocalSerial_kill_cmd(port) == [port EXCEPT !.buffer = <<"ETX">>]

\* send_binary: the message leaves as one frame
WSSerial_write(port, msg) == [port EXCEPT !.line = @ \o msg]
WSSerial_kill_cmd(port) == [port EXCEPT !.line = @ \o <<"ETX">>]

\* f"storage write {path}\r".encode()
WriteCommand(path) == <<"storage write", path, "CR">>

\* the three calls of File.write on LocalSerial; the operating system sends
\* up to a bytes after the first call and up to b bytes after the second
LocalSerial_stream(command, data, a, b) ==
    Flushed(LocalSerial_kill_cmd(
        Transmitted(LocalSerial_write(
            Transmitted(LocalSerial_write(NewPort, command), a), data), b))).line

WSSerial_stream(command, data) ==
    WSSerial_kill_cmd(WSSerial_write(WSSerial_write(NewPort, command), data)).line

InitWrite ==
    /\ fs = <<>>
    /\ call = NotCalled
    /\ wire = <<>>
    /\ result = NoResult
    /\ ThreadedIdle
    /\ transport \in {"local", "ws"}
    /\ request = [payload |-> <<>>, read_until |-> <<>>]
    /\ incoming = <<>>
    /\ outgoing = <<>>
    /\ answer = NotSent
    /\ input \in {[path |-> p, data |-> d] : p \in FileTargets, d \in Payloads}
    /\ outcome = NotApplied

\* File.write after its checks passed: what reaches the device
Streamed(bytes) ==
    /\ outgoing = <<>>
    /\ outgoing' = bytes
    /\ UNCHANGED <<transport, request, incoming, answer, storageVars, threadedVars, pureVars>>

LocalWrite ==
    /\ transport = "local"
    /\ \E a \in 0..Len(WriteCommand(input.path)),
          b \in 0..(Len(WriteCommand(input.path)) + Len(input.data)) :
          Streamed(LocalSerial_stream(WriteCommand(input.path), replace_crlf(input.data), a, b))

WsWrite ==
    /\ transport = "ws"
    /\ Streamed(WSSerial_stream(WriteCommand(input.path), replace_crlf(input.data)))

NextWrite == LocalWrite \/ WsWrite

SpecWrite == InitWrite /\ [][NextWrite]_vars

(***************************************************************************)
(* Path values at the level of characters: construction of a FlipperPath,  *)
(* its parent and parents, and the join of a bare name with which          *)
(* _explorer resolves a child.  A value is pathlib's triple of drive, root *)
(* and parts.                                                              *)
(***************************************************************************)
MaxSegments == 3    \* parts of a path value that may still be joined to

JoinNames == {<<"e">>, <<"x", "t">>}

NoPath == [drv |-> <<>>, root |-> <<>>, parts |-> <<>>]

\* pathlib: the pieces of rel that parse_parts keeps
SegmentsIn(rel) == SelectSeq(split(rel, <<>>), IsSegment)

\* pathlib parse_parts: an anchor without a drive takes the drive of the
\* nearest part before it that has one
RECURSIVE DriveBefore(_, _)
DriveBefore(parts, i) ==
    IF i = 0 THEN <<>>
    ELSE IF splitroot(parts[i]).drv # <<>> THEN splitroot(parts[i]).drv
    ELSE DriveBefore(parts, i - 1)

AnchorDrive(parts, i) ==
    IF splitroot(parts[i]).drv # <<>> THEN splitroot(parts[i]).drv ELSE DriveBefore(parts, i - 1)

\* pathlib parse_parts: the parts are read from the last one back to the
\* first one that has a drive or a root
RECURSIVE parse_parts_from(_, _, _)
parse_parts_from(parts, i, parsed) ==
    IF i = 0 THEN [drv |-> <<>>, root |-> <<>>, parts |-> parsed]
    ELSE IF splitroot(parts[i]).drv \o splitroot(parts[i]).root # <<>>
    THEN [drv |-> AnchorDrive(parts, i),
          root |-> splitroot(parts[i]).root,
          parts |-> <<AnchorDrive(parts, i) \o splitroot(parts[i]).root>>
                        \o SegmentsIn(splitroot(parts[i]).rel) \o parsed]
    ELSE parse_parts_from(parts, i - 1, SegmentsIn(splitroot(parts[i]).rel) \o parsed)

parse_parts(parts) == parse_parts_from(parts, Len(parts), <<>>)

\* the is_absolute check of __new__ on a parsed value
Validated(value) ==
    IF is_absolute_checked(value.parts).exc # "none"
    THEN [exc |-> is_absolute_checked(value.parts).exc, val |-> NoPath]
    ELSE [exc |-> "none", val |-> value]

\* FlipperPath.__new__: _from_parts and then the is_absolute check
FlipperPath_new(args) == Validated(parse_parts(args))

\* PureFlipperPath.is_root
PureFlipperPath_is_root(value) == Len(value.parts) = 1

\* parts[:-i]
AllButLast(parts, i) == SubSeq(parts, 1, Len(parts) - i)

\* FlipperPath.parent: _from_parsed_parts makes the value without a check
FlipperPath_parent(value) == parse_parts(AllButLast(value.parts, 1))

\* the generator of FlipperPath.parents from its i-th round on
RECURSIVE parents_from(_, _)
parents_from(value, i) ==
    IF i >= Len(value.parts) THEN <<>>
    ELSE <<parse_parts(AllButLast(value.parts, i))>> \o parents_from(value, i + 1)

\* a generator whose range starts at 0
parents_with_self(value) == parents_from(value, 0)

\* FlipperPath.parents: every access makes a generator that starts at i = 1
FlipperPath_parents(value) == parents_from(value, 1)

\* pathlib join_parsed_parts
join_parsed_parts(a, b) ==
    IF b.root # <<>> /\ b.drv = <<>> /\ a.drv # <<>>
    THEN [drv |-> a.drv, root |-> b.root, parts |-> <<a.drv \o b.root>> \o Tail(b.parts)]
    ELSE IF b.root = <<>> /\ b.drv # <<>> /\ b.drv = a.drv
    THEN [drv |-> a.drv, root |-> a.root, parts |-> a.parts \o Tail(b.parts)]
    ELSE IF b.root = <<>> /\ b.drv = <<>>
    THEN [drv |-> a.drv, root |-> a.root, parts |-> a.parts \o b.parts]
    ELSE b

\* Storage._explorer and FlipperPath.iterdir on a bare name:
\* PureFlipperPath(path), then PureFlipperPath(path / name), then FlipperPath
JoinName(value, name) ==
    IF Validated(parse_parts(value.parts)).exc # "none"
    THEN Validated(parse_parts(value.parts))
    ELSE Validated(parse_parts(join_parsed_parts(parse_parts(value.parts), parse_parts(<<name>>)).parts))

InitWalk ==
    /\ fs = <<>>
    /\ call = NotCalled
    /\ wire = <<>>
    /\ result = NoResult
    /\ ThreadedIdle
    /\ SendIdle
    /\ input \in PathTexts
    /\ outcome = NotApplied

\* a value that an operation returned
Kept(value) == [exc |-> "none", val |-> value]

Walked == "op" \in DOMAIN outcome

Walking == Walked /\ outcome.exc = "none"

Moved(op, r, first, second) ==
    /\ outcome' = [exc |-> r.exc, val |-> r.val, op |-> op, of |-> outcome.val,
                   yielded |-> first, again |-> second]
    /\ UNCHANGED <<input, storageVars, threadedVars, sendVars>>

NewFlipperPath ==
    /\ ~Walked
    /\ Moved("new", FlipperPath_new(<<input>>), <<>>, <<>>)

ParentOf ==
    /\ Walking
    /\ Moved("parent", Kept(FlipperPath_parent(outcome.val)), <<>>, <<>>)

\* the property is read and iterated twice; the walk goes on from a yielded path
ParentsOf ==
    /\ Walking
    /\ \/ /\ FlipperPath_parents(outcome.val) = <<>>
          /\ Moved("parents", Kept(outcome.val),
                   FlipperPath_parents(outcome.val), FlipperPath_parents(outcome.val))
       \/ \E i \in 1..Len(FlipperPath_parents(outcome.val)) :
              Moved("parents", Kept(FlipperPath_parents(outcome.val)[i]),
                    FlipperPath_parents(outcome.val), FlipperPath_parents(outcome.val))

Joined ==
    /\ Walking
    /\ Len(outcome.val.parts) <= MaxSegments
    /\ \E name \in JoinNames : Moved("join", JoinName(outcome.val, name), <<>>, <<>>)

NextWalk == NewFlipperPath \/ ParentOf \/ ParentsOf \/ Joined

SpecWalk == InitWalk /\ [][NextWalk]_vars

(***************************************************************************)
(* Storage._explorer at the level of characters: the device's listing as   *)
(* it comes out of send, the pattern of children_p over it, and the size   *)
(* of every file line.                                                     *)
(***************************************************************************)
MaxLines == 2       \* entry lines in a listing

EntryNames == {<<"a">>, <<"x">>}
EntrySizes == {<<"7">>, <<"1", "2">>, <<"5", "b">>, <<"5", "B">>, <<"2", "K", "i", "B">>,
               <<"1", ".", "5", "K", "i", "B">>}
ListedEntries ==
    {[tag |-> "D", name |-> n, size |-> <<>>] : n \in EntryNames}
        \cup {[tag |-> "F", name |-> n, size |-> s] : n \in EntryNames, s \in EntrySizes}

ListCommand == <<"storage list /ext", "CR">>
ListedRoot == parse_parts(<<<<"/", "e", "x", "t">>>>)

\* "[D] <name>" or "[F] <name> <size>"
EntryText(e) ==
    <<"[", e.tag, "]", " ">> \o e.name \o (IF e.tag = "F" THEN <<" ">> \o e.size ELSE <<>>)

\* the lines of a listing with a line break between them
RECURSIVE JoinedLines(_)
JoinedLines(entries) ==
    IF entries = <<>> THEN <<>>
    ELSE IF Len(entries) = 1 THEN EntryText(entries[1])
    ELSE EntryText(entries[1]) \o LineEnd \o JoinedLines(Tail(entries))

\* what the device sends for the command: the echo, the lines, a line break
\* of the last line's own when the device ends every line with one, and the
\* prompt
ListingStream(entries, ended) ==
    Echo(ListCommand) \o JoinedLines(entries) \o (IF ended THEN LineEnd ELSE <<>>) \o Prompt

\* \w of the characters of an entry line
IsEntryWord(c) == IsDigit(c) \/ c \in {"a", "x", "b", "B", "K", "i"}

\* the longest run of [^\s] from position k on
RECURSIVE NameRun(_, _)
NameRun(text, k) ==
    IF k <= Len(text) /\ ~IsWhitespace(text[k]) THEN 1 + NameRun(text, k + 1) ELSE 0

\* the longest run of \w from position k on
RECURSIVE EntryWordRun(_, _)
EntryWordRun(text, k) ==
    IF k <= Len(text) /\ IsEntryWord(text[k]) THEN 1 + EntryWordRun(text, k + 1) ELSE 0

\* "\r\n" at position k
CRLFAt(text, k) == k + 1 <= Len(text) /\ text[k] = "CR" /\ text[k + 1] = "LF"

\* "\[([FD])\]\s" at position i
HeadAt(text, i) ==
    /\ i + 3 <= Len(text)
    /\ text[i] = "["
    /\ text[i + 1] \in {"F", "D"}
    /\ text[i + 2] = "]"
    /\ IsWhitespace(text[i + 3])

\* the position after "([^\s]+)" of a match that starts at i
AfterName(text, i) == i + 4 + NameRun(text, i + 4)

\* the length of what "\s(\d+\w+)" can take at position n: a run of \w that
\* starts with a digit, after one \s
SizeLen(text, n) ==
    IF n + 1 <= Len(text) /\ IsWhitespace(text[n]) /\ IsDigit(text[n + 1])
    THEN EntryWordRun(text, n + 1)
    ELSE 0

\* "(?:\s(\d+\w+))?\r\n" with the group taken: \d+ and \w+ need a character each
WithSize(text, n) == SizeLen(text, n) >= 2 /\ CRLFAt(text, n + 1 + SizeLen(text, n))

\* children_p matches at position i
MatchesAt(text, i) ==
    /\ HeadAt(text, i)
    /\ NameRun(text, i + 4) >= 1
    /\ WithSize(text, AfterName(text, i)) \/ CRLFAt(text, AfterName(text, i))

\* the position after the match
MatchEnd(text, i) ==
    IF WithSize(text, AfterName(text, i))
    THEN AfterName(text, i) + 1 + SizeLen(text, AfterName(text, i)) + 2
    ELSE AfterName(text, i) + 2

\* the groups of the match: c[0], c[1], c[2]
Groups(text, i) ==
    [tag |-> text[i + 1],
     name |-> SubSeq(text, i + 4, AfterName(text, i) - 1),
     size |-> IF WithSize(text, AfterName(text, i))
              THEN SubSeq(text, AfterName(text, i) + 1,
                          AfterName(text, i) + SizeLen(text, AfterName(text, i)))
              ELSE <<>>]

\* children_p.findall(received)
RECURSIVE findall(_, _)
findall(text, i) ==
    IF i > Len(text) THEN <<>>
    ELSE IF MatchesAt(text, i) THEN <<Groups(text, i)>> \o findall(text, MatchEnd(text, i))
    ELSE findall(text, i + 1)

\* the child of one match
ChildOfMatch(c) ==
    [name |-> c.name,
     path |-> JoinName(ListedRoot, c.name).val.parts,
     type |-> IF c.tag = "D" THEN "dir" ELSE "file",
     size |-> IF c.tag = "D" THEN <<>> ELSE <<parse_fs_size_text(c.size).val>>]

\* the loop over the matches ends at the first size that parse_fs_size refuses
RECURSIVE children_of(_)
children_of(matches) ==
    IF matches = <<>> THEN [exc |-> "none", val |-> <<>>]
    ELSE IF Head(matches).tag = "F" /\ parse_fs_size_text(Head(matches).size).exc # "none"
    THEN [exc |-> parse_fs_size_text(Head(matches).size).exc, val |-> <<>>]
    ELSE IF children_of(Tail(matches)).exc # "none" THEN children_of(Tail(matches))
    ELSE [exc |-> "none", val |-> <<ChildOfMatch(Head(matches))>> \o children_of(Tail(matches)).val]

\* Storage._explorer over LocalSerial: send, findall, the children
explorer_text(stream) ==
    IF LocalSerial_send(ListCommand, Prompt, stream).exc # "none"
    THEN LocalSerial_send(ListCommand, Prompt, stream)
    ELSE children_of(findall(LocalSerial_send(ListCommand, Prompt, stream).val, 1))

InitExplore ==
    /\ fs = <<>>
    /\ call = NotCalled
    /\ wire = <<>>
    /\ result = NoResult
    /\ ThreadedIdle
    /\ SendIdle
    /\ input \in {[entries |-> es, ended |-> b] :
                    es \in SeqsUpTo(ListedEntries, MaxLines) \ {<<>>}, b \in BOOLEAN}
    /\ outcome = NotApplied

Explore == Applied(explorer_text(ListingStream(input.entries, input.ended)))

NextExplore == Explore

SpecExplore == InitExplore /\ [][NextExplore]_vars

(***************************************************************************)
(* Storage.info at the level of the reply's lines: the reply is a text of  *)
(* tokens, a line break is the two tokens CR and LF.                       *)
(***************************************************************************)
MaxInfoLines == 7   \* lines in a reply to "storage info"

InfoCommand == <<"storage info", "CR">>

\* the six lines of a well-formed reply
InfoLines ==
    <<<<"Label: ", "L">>, <<"Type: ", "T">>, <<"7", "K", "i", "B", " total">>,
      <<"5", "K", "i", "B", " free">>, <<"m">>, <<"SN:", "1">>>>

\* what the i-th line of a reply can be: the line of a well-formed reply
\* at that place, some other text, or nothing
LinesAt(i) == (IF i <= 6 THEN {InfoLines[i]} ELSE {}) \cup {<<"m">>, <<>>}

InfoReplies == UNION {{r \in [1..n -> UNION {LinesAt(i) : i \in 1..MaxInfoLines}] :
                          \A i \in 1..n : r[i] \in LinesAt(i)} : n \in 0..MaxInfoLines}

InfoPaths == {<<"/", "e", "x", "t">>, <<"/", "e", "x", "t", "/">>,
              <<"/", "e", "x", "t", "/", "e">>, <<"/", "e">>}

\* the lines with a line break after each, or between them only
RECURSIVE InfoText(_, _)
InfoText(lines, closed) ==
    IF lines = <<>> THEN <<>>
    ELSE IF Len(lines) = 1 THEN lines[1] \o (IF closed THEN LineEnd ELSE <<>>)
    ELSE lines[1] \o LineEnd \o InfoText(Tail(lines), closed)

InfoStream(lines, opened, closed) ==
    Echo(InfoCommand) \o (IF opened THEN LineEnd ELSE <<>>) \o InfoText(lines, closed) \o Prompt

\* str.strip("\r\n ")
RECURSIVE strip_breaks(_)
strip_breaks(text) ==
    IF text # <<>> /\ Head(text) \in {"CR", "LF", " "} THEN strip_breaks(Tail(text))
    ELSE IF text # <<>> /\ text[Len(text)] \in {"CR", "LF", " "}
         THEN strip_breaks(SubSeq(text, 1, Len(text) - 1))
    ELSE text

\* str.split("\r\n")
RECURSIVE split_lines(_, _)
split_lines(text, piece) ==
    IF text = <<>> THEN <<piece>>
    ELSE IF StartsWith(text, LineEnd) THEN <<piece>> \o split_lines(SubSeq(text, 3, Len(text)), <<>>)
    ELSE split_lines(Tail(text), Append(piece, Head(text)))

InfoTotalOf(received) == parse_fs_size_text(removesuffix(received[3], <<" total">>))
InfoFreeOf(received) == parse_fs_size_text(removesuffix(received[4], <<" free">>))

\* (mutant) a reply of more than six lines is taken by its first six
info_record_of_first_six(received) ==
    IF Len(received) < 6 THEN [exc |-> "FlipperException", val |-> <<>>]
    ELSE [exc |-> "none",
          val |-> <<[label |-> removeprefix(received[1], <<"Label: ">>),
                     fs_format |-> removeprefix(received[2], <<"Type: ">>),
                     total_size |-> 0, free_space |-> 0,
                     model |-> received[5],
                     sn |-> removeprefix(received[6], <<"SN:">>)]>>]

\* lines 342-350: the record of the six lines
info_record(received) ==
    IF Len(received) # 6 THEN [exc |-> "FlipperException", val |-> <<>>]
    ELSE IF InfoTotalOf(received).exc # "none" THEN [exc |-> InfoTotalOf(received).exc, val |-> <<>>]
    ELSE IF InfoFreeOf(received).exc # "none" THEN [exc |-> InfoFreeOf(received).exc, val |-> <<>>]
    ELSE [exc |-> "none",
          val |-> <<[label |-> removeprefix(received[1], <<"Label: ">>),
                     fs_format |-> removeprefix(received[2], <<"Type: ">>),
                     total_size |-> InfoTotalOf(received).val,
                     free_space |-> InfoFreeOf(received).val,
                     model |-> received[5],
                     sn |-> removeprefix(received[6], <<"SN:">>)]>>]

WithCommands(r, cmds) == [exc |-> r.exc, val |-> r.val, sent |-> cmds]

\* Storage.info: the path, the root test, the send and the six lines
Storage_info_text(path, stream) ==
    IF PureFlipperPath(path).exc # "none" THEN WithCommands(PureFlipperPath(path), <<>>)
    ELSE IF Len(PureFlipperPath(path).val) # 1
    THEN WithCommands([exc |-> "StoragePathInvalid", val |-> <<>>], <<>>)
    ELSE IF LocalSerial_send(InfoCommand, Prompt, stream).exc # "none"
    THEN WithCommands(LocalSerial_send(InfoCommand, Prompt, stream), <<InfoCommand>>)
    ELSE WithCommands(
            info_record(split_lines(strip_breaks(LocalSerial_send(InfoCommand, Prompt, stream).val), <<>>)),
            <<InfoCommand>>)

InitInfo ==
    /\ fs = <<>>
    /\ call = NotCalled
    /\ wire = <<>>
    /\ result = NoResult
    /\ ThreadedIdle
    /\ SendIdle
    /\ input \in {[path |-> p, lines |-> r, opened |-> o, closed |-> c] :
                    p \in InfoPaths, r \in InfoReplies, o \in BOOLEAN, c \in BOOLEAN}
    /\ outcome = NotApplied

InfoOp == Applied(Storage_info_text(input.path, InfoStream(input.lines, input.opened, input.closed)))

NextInfo == InfoOp

SpecInfo == InitInfo /\ [][NextInfo]_vars

(***************************************************************************)
(* Storage.read at the level of bytes: the send of "storage read" with the *)
(* line break as terminator, the header, and the raw read of the content.  *)
(***************************************************************************)
MaxFile == 2        \* bytes in the file that is read

FileBytes == {"d", "LF"}
FileContents == SeqsUpTo(FileBytes, MaxFile)

ReadCommand == <<"storage read f", "CR">>
SizeHeader(n) == <<"Size: ", DigitSeq[n + 1]>>
ErrorLine == <<"w", " ", "error:", " ", "w">>

\* what the device sends for the command: the echo, the header line, the
\* bytes of the file and the prompt; for a path it cannot read, the echo, the
\* error line and the prompt
ReadStream(content) == Echo(ReadCommand) \o SizeHeader(Len(content)) \o LineEnd \o content \o Prompt
RefusalStream == Echo(ReadCommand) \o ErrorLine \o LineEnd \o Prompt

\* the bytes that LocalSerial._send leaves unread in the port
LocalSerial_left(payload, until, stream) ==
    SubSeq(AfterEcho(payload, stream, ReadCap),
           read_until(AfterEcho(payload, stream, ReadCap), until,
                      Len(AfterEcho(payload, stream, ReadCap)) + 1) + 1,
           Len(AfterEcho(payload, stream, ReadCap)))

\* the bytes of the messages that the loop of WSSerial._send has not received
WSSerial_left(until, chunks) ==
    SubSeq(Flatten(chunks), Len(WSSerial_receive(<<>>, chunks, until).val) + 1, Len(Flatten(chunks)))

\* int(size.removeprefix("Size: "))
SizeOf(received) == int_of(removeprefix(received, <<"Size: ">>))

ReadResult(exc, val, reads) == [exc |-> exc, val |-> val, reads |-> reads]

\* SerialWrapper.read(size): the next size bytes of the link
wrapper_read(size, left) ==
    IF size <= 0 THEN ReadResult("ValueError", <<>>, <<>>)
    ELSE IF Len(left) < size THEN ReadResult("waiting", <<>>, <<size>>)
    ELSE ReadResult("none", SubSeq(left, 1, size), <<size>>)

\* Storage.read after its send: the except clause reads e.messate, an
\* attribute that FlipperError does not have
read_after_send(sent, left) ==
    IF sent.exc = "FlipperError" THEN ReadResult("AttributeError", <<>>, <<>>)
    ELSE IF sent.exc # "none" THEN ReadResult(sent.exc, <<>>, <<>>)
    ELSE IF SizeOf(sent.val).exc # "none" THEN ReadResult(SizeOf(sent.val).exc, <<>>, <<>>)
    ELSE IF SizeOf(sent.val).val > 0 THEN wrapper_read(SizeOf(sent.val).val, left)
    ELSE ReadResult("none", <<>>, <<>>)

LocalSerial_read_file(stream) ==
    read_after_send(send_checked(LocalSerial_send(ReadCommand, LineEnd, stream)),
                    LocalSerial_left(ReadCommand, LineEnd, stream))

WSSerial_read_file(chunks) ==
    read_after_send(send_checked(WSSerial_send(ReadCommand, LineEnd, chunks)),
                    WSSerial_left(LineEnd, chunks))

ReadStreams == {[refused |-> FALSE, content |-> c, stream |-> ReadStream(c)] : c \in FileContents}
                  \cup {[refused |-> TRUE, content |-> <<>>, stream |-> RefusalStream]}

InitRead ==
    /\ fs = <<>>
    /\ call = NotCalled
    /\ wire = <<>>
    /\ result = NoResult
    /\ ThreadedIdle
    /\ PureIdle
    /\ transport \in {"local", "ws"}
    /\ request = [payload |-> ReadCommand, read_until |-> LineEnd]
    /\ \E s \in ReadStreams :
        \E cuts \in CutSets(Len(s.stream)) :
            incoming = [refused |-> s.refused, content |-> s.content,
                        chunks |-> ChunksFrom(s.stream, cuts, 1)]
    /\ outgoing = <<>>
    /\ answer = NotSent

LocalRead ==
    /\ transport = "local"
    /\ Sent(LocalSerial_read_file(Flatten(incoming.chunks)))

WsRead ==
    /\ transport = "ws"
    /\ Sent(WSSerial_read_file(incoming.chunks))

NextRead == LocalRead \/ WsRead

SpecRead == InitRead /\ [][NextRead]_vars

(***************************************************************************)
(* File.write followed by the next send on the same transport, in both     *)
(* directions: the bytes that reach the device, and what the send returns  *)
(* when the device's output of the write session is still on its way.      *)
(***************************************************************************)
NextCommand == <<"c", "CR">>
NextReply == <<"r">>

\* LocalSerial._send towards the device: reset_output_buffer() discards what
\* the buffer holds, then write(payload)
LocalSerial_send_out(port, payload) == [port EXCEPT !.buffer = payload]

\* File.write and the next send on LocalSerial; the operating system sends
\* up to a, b and c bytes after the first, second and third call
LocalSerial_session(command, data, a, b, c) ==
    Flushed(LocalSerial_send_out(
        Transmitted(LocalSerial_kill_cmd(
            Transmitted(LocalSerial_write(
                Transmitted(LocalSerial_write(NewPort, command), a), data), b)), c),
        NextCommand)).line

WSSerial_session(command, data) ==
    WSSerial_write(WSSerial_kill_cmd(WSSerial_write(WSSerial_write(NewPort, command), data)),
                   NextCommand).line

\* what the device sends during a write session, none of which File.write
\* reads: the echo of the command, the text of the write mode, and the
\* prompt after the cancel byte
SessionOutput(command) == Echo(command) \o <<"text">> \o Prompt

\* the part of it that arrives after the next send has emptied its input
Late(command, k) == SubSeq(SessionOutput(command), k + 1, Len(SessionOutput(command)))

\* LocalSerial._send: reset_input_buffer() has discarded what had arrived
LocalSerial_next_send(late) ==
    send_checked(LocalSerial_send(NextCommand, Prompt,
                                  late \o Answer(NextCommand, Prompt, NextReply, <<>>)))

\* the late output as a message of its own, or none
AsMessage(late) == IF late = <<>> THEN <<>> ELSE <<late>>

\* WSSerial._send: _clear_buffer() has received what had arrived
WSSerial_next_send(late) ==
    send_checked(WSSerial_send(NextCommand, Prompt,
                               AsMessage(late) \o <<Answer(NextCommand, Prompt, NextReply, <<>>)>>))

InitSession ==
    /\ fs = <<>>
    /\ call = NotCalled
    /\ wire = <<>>
    /\ result = NoResult
    /\ ThreadedIdle
    /\ transport \in {"local", "ws"}
    /\ request = [payload |-> NextCommand, read_until |-> Prompt]
    /\ incoming = <<>>
    /\ outgoing = <<>>
    /\ answer = NotSent
    /\ input \in {[path |-> p, data |-> d] : p \in FileTargets, d \in Payloads}
    /\ outcome = NotApplied

\* File.write after its checks passed, and then send(NextCommand)
SessionDone(line, late, r) ==
    /\ outgoing = <<>>
    /\ outgoing' = line
    /\ incoming' = late
    /\ answer' = r
    /\ UNCHANGED <<transport, request, storageVars, threadedVars, pureVars>>

LocalSession ==
    /\ transport = "local"
    /\ \E a \in 0..Len(WriteCommand(input.path)),
          b \in 0..(Len(WriteCommand(input.path)) + Len(input.data)),
          c \in 0..1,
          k \in 0..Len(SessionOutput(WriteCommand(input.path))) :
          SessionDone(LocalSerial_session(WriteCommand(input.path), replace_crlf(input.data), a, b, c),
                      Late(WriteCommand(input.path), k),
                      LocalSerial_next_send(Late(WriteCommand(input.path), k)))

WsSession ==
    /\ transport = "ws"
    /\ \E k \in 0..Len(SessionOutput(WriteCommand(input.path))) :
          SessionDone(WSSerial_session(WriteCommand(input.path), replace_crlf(input.data)),
                      Late(WriteCommand(input.path), k),
                      WSSerial_next_send(Late(WriteCommand(input.path), k)))

NextSession == LocalSession \/ WsSession

SpecSession == InitSession /\ [][NextSession]_vars

(***************************************************************************)
(* The path object specification: one FlipperPath object is used for one   *)
(* call after another (exists, mkdir and remove without make_parents and   *)
(* without recursive, which touch neither _stat nor the cached parent).    *)
(* The object keeps its cached_property type between the calls.            *)
(***************************************************************************)
\* no type was looked up on the object yet
Unset == "unset"

\* self.type on an object whose cache holds t: functools.cached_property
\* calls type() at the first use only and stores what it returned
cached_type(m, t, self) == IF t = Unset THEN type(m, self) ELSE Return(m, t)

\* the cache after self.type was used: a lookup that raised stores nothing
CacheAfter(t, r) == IF r.exc = "none" THEN r.val ELSE t

\* FlipperPath.exists: self.type != ''
exists(m, t, self) == Bind(cached_type(m, t, self), LAMBDA r : Return(r.m, r.val # ""))

\* FlipperPath.mkdir on the object: is_root() comes first, then is_file and
\* is_dir read the cached type
object_mkdir(m, t, self, exist_ok) ==
    IF is_root(self) THEN mkdir_typed(m, self, "", FALSE, exist_ok)
    ELSE Bind(cached_type(m, t, self), LAMBDA r : mkdir_typed(r.m, self, r.val, FALSE, exist_ok))

\* the cache after mkdir
mkdir_cache(m, t, self) == IF is_root(self) THEN t ELSE CacheAfter(t, cached_type(m, t, self))

InitObject ==
    /\ fs \in Filesystems({<<>>})
    /\ call = NotCalled
    /\ wire = <<>>
    /\ result = NoResult
    /\ ThreadedIdle
    /\ SendIdle
    /\ input \in {[path |-> p, type |-> Unset] : p \in Universe}
    /\ outcome = NotApplied

\* a method of the object ran to its end: r is what it left, t the cache
ObjectUsed(c, r, t) ==
    /\ Cardinality(DOMAIN r.m.fs) <= MaxNodes
    /\ fs' = r.m.fs
    /\ wire' = r.m.wire
    /\ call' = c
    /\ result' = [exc |-> r.exc, val |-> r.val]
    /\ input' = [input EXCEPT !.type = t]
    /\ UNCHANGED <<threadedVars, sendVars, outcome>>

ObjectExists ==
    ObjectUsed([op |-> "exists", path |-> input.path, cached |-> input.type, before |-> fs],
               exists(Start(fs), input.type, input.path),
               CacheAfter(input.type, cached_type(Start(fs), input.type, input.path)))

ObjectMkdir ==
    \E exist_ok \in BOOLEAN :
        ObjectUsed([op |-> "mkdir", path |-> input.path, cached |-> input.type,
                    exist_ok |-> exist_ok, before |-> fs],
                   object_mkdir(Start(fs), input.type, input.path, exist_ok),
                   mkdir_cache(Start(fs), input.type, input.path))

\* FlipperPath.remove(recursive=False) reads no cached value
ObjectRemove ==
    \E remove_contents \in BOOLEAN :
        ObjectUsed([op |-> "remove", path |-> input.path, cached |-> input.type,
                    remove_contents |-> remove_contents, before |-> fs],
                   remove(Start(fs), input.path, FALSE, remove_contents),
                   input.type)

NextObject == ObjectExists \/ ObjectMkdir \/ ObjectRemove

SpecObject == InitObject /\ [][NextObject]_vars

(***************************************************************************)
(* Properties of the storage operations.                                   *)
(***************************************************************************)
IsRemove(c) == c.cmd = "remove"
IsMkdir(c) == c.cmd = "mkdir"
Removes == SelectSeq(wire, IsRemove)
Mkdirs == SelectSeq(wire, IsMkdir)
PathsOf(cmds) == [i \in 1..Len(cmds) |-> cmds[i].path]

Called(op) == call.op = op
KindBefore(p) == KindOf(call.before, p)
FilesBelow(p) == {q \in DOMAIN call.before : StrictlyBelow(q, p) /\ call.before[q].kind = "file"}
DirsBelow(p) == {q \in DOMAIN call.before : StrictlyBelow(q, p) /\ call.before[q].kind = "dir"}
ChildrenOf(S, p) == {q \in S : Len(q) = Len(p) + 1}

\* C2: Storage.stat on a path the device has no entry for raises
\* StoragePathFree, with extended set and with extended clear, and
\* "storage stat" is the only command it sends.
C2_StatMissingIsNotFound ==
    (Called("stat") /\ KindBefore(call.path) = "")
        => (result.exc = "StoragePathFree" /\ wire = <<Cmd("stat", call.path)>>)

C2_Witness ==
    /\ Called("stat") /\ call.extended /\ KindBefore(call.path) = ""
    /\ result.exc = "StoragePathFree"

\* C3: remove(recursive=true, remove_contents=true) on a directory tree sends
\* its directory removals deepest first: no removal is followed by the removal
\* of something nested below it, the depth of the removed directories never
\* grows, and the remove of the path itself is the last command sent.
RecursiveRemoveOfTree ==
    /\ Called("remove") /\ call.recursive /\ call.remove_contents
    /\ KindBefore(call.path) \in {"dir", "storage"}

IsDirBefore(p) == KindBefore(p) \in {"dir", "storage"}

C3_RemoveDeepestFirst ==
    RecursiveRemoveOfTree =>
        /\ wire # <<>> /\ wire[Len(wire)] = Cmd("remove", call.path)
        /\ \A i, j \in 1..Len(Removes) :
              i < j => /\ ~StrictlyBelow(Removes[j].path, Removes[i].path)
                       /\ (IsDirBefore(Removes[i].path) /\ IsDirBefore(Removes[j].path))
                             => Len(Removes[i].path) >= Len(Removes[j].path)
        /\ \A d \in DirsBelow(call.path) : \E i \in 1..Len(Removes) : Removes[i].path = d

C3_Witness ==
    /\ RecursiveRemoveOfTree /\ result.exc = "none"
    /\ \E d, e \in DirsBelow(call.path) : StrictlyBelow(e, d)
    /\ \E i, j \in 1..Len(Removes) : i < j /\ StrictlyBelow(Removes[i].path, Removes[j].path)
                                          /\ Removes[j].path # call.path

\* C4: a remove that is refused for what the directory holds raises a
\* StorageException and sends no "storage remove": without recursive, when the
\* directory holds a subdirectory, or holds files and remove_contents is clear;
\* with recursive, when the subtree holds a file and remove_contents is clear.
RefusedForContent ==
    /\ Called("remove") /\ KindBefore(call.path) \in {"dir", "storage"}
    /\ IF call.recursive
       THEN FilesBelow(call.path) # {} /\ ~call.remove_contents
       ELSE \/ ChildrenOf(DirsBelow(call.path), call.path) # {}
            \/ (ChildrenOf(FilesBelow(call.path), call.path) # {} /\ ~call.remove_contents)

C4_RefusedRemoveSendsNothing ==
    RefusedForContent => (IsStorageException(result.exc) /\ Removes = <<>> /\ fs = call.before)

C4_Witness ==
    /\ RefusedForContent /\ ~call.recursive /\ ~call.remove_contents
    /\ ChildrenOf(FilesBelow(call.path), call.path) # {}
    /\ result.exc = "StorageException" /\ Removes = <<>>

\* C5: mkdir(make_parents=true) on a free path sends one "storage mkdir" for
\* each missing directory of the chain, outermost first and the path itself
\* last, and none for the root or for an ancestor that exists.
RECURSIVE MissingChain(_, _, _)
MissingChain(f, p, n) ==
    IF n > Len(p) THEN <<>>
    ELSE (IF Exists(f, SubSeq(p, 1, n)) THEN <<>> ELSE <<SubSeq(p, 1, n)>>) \o MissingChain(f, p, n + 1)

MkdirWithParentsOnFreePath ==
    /\ Called("mkdir") /\ call.make_parents /\ ~is_root(call.path)
    /\ KindBefore(call.path) = ""
    /\ \A i \in 1..(Len(call.path) - 1) : KindBefore(SubSeq(call.path, 1, i)) # "file"

C5_MkdirParentsOuterFirst ==
    MkdirWithParentsOnFreePath =>
        /\ result.exc = "none"
        /\ PathsOf(Mkdirs) = MissingChain(call.before, call.path, 2)

C5_Witness ==
    /\ MkdirWithParentsOnFreePath
    /\ call.path = <<"/ext", "a", "b", "c">> /\ DOMAIN call.before = {}
    /\ PathsOf(Mkdirs) = << <<"/ext", "a">>, <<"/ext", "a", "b">>, <<"/ext", "a", "b", "c">> >>
    /\ DOMAIN fs = {<<"/ext", "a">>, <<"/ext", "a", "b">>, <<"/ext", "a", "b", "c">>}

(***************************************************************************)
(* Properties of File.write and File.read.                                 *)
(***************************************************************************)
\* a write that returned normally, at a path whose directory existed, was
\* followed by a read of the same path
WroteThenRead ==
    /\ call.op = "read"
    /\ call.prev.op = "write"
    /\ call.prev.path = call.path
    /\ call.prev.exc = "none"
    /\ ~call.noisy
    /\ KindOf(call.prev.before, parent(call.path)) \in {"dir", "storage"}

\* C1: File.write(p, data) followed by File.read(p) returns exactly data, for
\* data over an alphabet with CR and LF, and the MD5 of the returned bytes is
\* the md5 of the extended stat of p.
C1_WriteReadRoundTrip ==
    WroteThenRead =>
        /\ result.exc = "none"
        /\ result.val.data = call.prev.data
        /\ MD5(result.val.data) = result.val.md5

(***************************************************************************)
(* Properties of Threaded.                                                 *)
(***************************************************************************)
\* the method last called tried to arm a watchdog while one was armed
ArmedWhileArmed ==
    /\ tcall.op \in {"set_watchdog", "guarded", "exec"}
    /\ tcall.timeout # 0
    /\ tcall.before.watchdog # None

\* C6: arming a watchdog (by _set_watchdog, or by _exec with a timeout) while
\* one is armed fails and leaves the armed watchdog with its deadline, the
\* exec-thread slot and the link as they were.
C6_ArmWhileArmedRejected ==
    ArmedWhileArmed => (tcall.exc # "none" /\ tcall.after = tcall.before)

Armed(id) == _watchdog.id = id
Due(id) == Armed(id) /\ now >= _watchdog.born + _watchdog.timeout

\* C7: a watchdog whose deadline passes while it is the armed watchdog of its
\* owner fires (kill_cmd, both slots cleared): it does not stay armed.
C7_DueWatchdogFires == \A id \in 1..MaxWatchdogs : Due(id) ~> ~Armed(id)

\* C8: when a watchdog-guarded call has completed, by returning or by
\* raising, its watchdog is disarmed.
C8_GuardedCallDisarms == (tcall.op = "guarded" /\ mainpc = "idle") => _watchdog = None

\* C9: at most one thread at a time is inside a send on the transport.
C9_OneCommandInFlight == Cardinality(InFlight) <= 1

(***************************************************************************)
(* Properties of the transports' _send.                                    *)
(***************************************************************************)
\* the terminator occurs in the reply followed by the terminator at the end only
ReplyHasNoTerminator ==
    read_until(incoming.reply \o request.read_until, request.read_until, ReadCap)
        = Len(incoming.reply \o request.read_until)

\* C10: on both transports send writes the command and CR once and returns
\* exactly the reply, without the echo and the terminator, however the
\* device's answer is cut into chunks and whatever follows the terminator.
C10_SendReturnsReply ==
    (outgoing # <<>> /\ ReplyHasNoTerminator) =>
        /\ outgoing = <<request.payload>>
        /\ answer = [exc |-> "none", val |-> incoming.reply]

(***************************************************************************)
(* Properties of the error check of send.                                  *)
(***************************************************************************)
\* the text begins with a word of n characters, one whitespace character,
\* "error:" and one whitespace character
ErrorShapeAt(text, n) ==
    /\ n >= 1 /\ Len(text) >= n + 3
    /\ \A i \in 1..n : text[i] = "w"
    /\ text[n + 1] \in {" ", "CR", "LF"}
    /\ text[n + 2] = "error:"
    /\ text[n + 3] \in {" ", "CR", "LF"}

BeginsWithErrorShape(text) == \E n \in 1..Len(text) : ErrorShapeAt(text, n)

\* the message: what follows the shape, up to the end of its line
MessageAt(text, n) ==
    SubSeq(text, n + 4,
           Smallest({k \in (n + 3)..Len(text) : k = Len(text) \/ text[k + 1] = "LF"}))

Checked11 == outcome # NotApplied /\ input.exc = "none"

\* C11: send fails with FlipperError carrying <message> exactly when the text
\* it would return begins with "<word> error: <message>"; a text that has
\* the shape only further on is returned as it is.
C11_ErrorShapeAtStartRaises ==
    Checked11 =>
        /\ (outcome.exc = "FlipperError") <=> BeginsWithErrorShape(input.val)
        /\ \A n \in 1..Len(input.val) :
              ErrorShapeAt(input.val, n) =>
                  /\ StartsWith(input.val, outcome.val)
                  /\ EndsWith(outcome.val, MessageAt(input.val, n))
                  /\ Len(outcome.val) = n + 3 + Len(MessageAt(input.val, n))
        /\ ~BeginsWithErrorShape(input.val) => outcome = input

C11_Witness ==
    /\ Checked11
    /\ input.val = <<"w", " ", "error:", " ", "w">>
    /\ outcome = [exc |-> "FlipperError", val |-> input.val]

(***************************************************************************)
(* Properties of the transports' exception handling.                       *)
(***************************************************************************)
TimedOut(cls) == cls \in {"SerialTimeoutException", "socket.timeout", "WebSocketTimeoutException"}
LinkFailed(cls) == cls # "none" /\ ~TimedOut(cls)

\* the drain of a websocket send is over when its wait times out
Drained == input.drained = "none" \/ TimedOut(input.drained)

\* C12: on both transports every link operation reports a timed-out wait as
\* FlipperTimeout and a lost or broken link as SerialException, never one as
\* the other.
C12_TimeoutAndLossDistinct ==
    (outcome # NotApplied /\ Drained) =>
        /\ TimedOut(input.raised) => outcome.exc = "FlipperTimeout"
        /\ LinkFailed(input.raised) => outcome.exc = "SerialException"
        /\ input.raised = "none" => outcome.exc = "none"

(***************************************************************************)
(* Properties of path parsing.                                             *)
(***************************************************************************)
BeginsWithStorage(text) == Len(text) >= 4 /\ SubSeq(text, 1, 4) = <<"/", "e", "x", "t">>

NonEmpty(piece) == piece # <<>>

\* the non-empty pieces, between slashes, of what follows the 4-character prefix
PiecesAfterStorage(text) == SelectSeq(split(SubSeq(text, 5, Len(text)), <<>>), NonEmpty)

\* C13: PureFlipperPath(s) succeeds exactly when s begins with "/ext" or
\* "/int" and raises StoragePathInvalid otherwise; on success the root is
\* that prefix and the segments are the non-empty pieces of the text after
\* it, no character lost.
C13_PathParsing ==
    outcome # NotApplied =>
        /\ (outcome.exc = "none") <=> BeginsWithStorage(input)
        /\ ~BeginsWithStorage(input) => outcome.exc = "StoragePathInvalid"
        /\ outcome.exc = "none" =>
              /\ rstrip(outcome.val[1]) = SubSeq(input, 1, 4)
              /\ Tail(outcome.val) = PiecesAfterStorage(input)

(***************************************************************************)
(* Properties of Storage.list.                                             *)
(***************************************************************************)
Listed == Called("list") /\ result.exc = "none"

\* what the device holds directly under the queried path, in its order
Reported == OrderedSeq(ChildrenOf({q \in DOMAIN call.before : StrictlyBelow(q, call.path)}, call.path))

ListedDir(c) == KindBefore(c.path) = "dir"
ListedFile(c) == KindBefore(c.path) = "file"

\* C14: Storage.list on a directory: as many children as dirs plus files,
\* children in the order the device reports them with dirs and files as its
\* order-preserving sub-sequences, and the queried path is the immediate
\* parent of every entry's path.
C14_ListPartitionsChildren ==
    Listed =>
        /\ Len(result.val.children) = Len(result.val.dirs) + Len(result.val.files)
        /\ PathsOf(result.val.children) = Reported
        /\ result.val.dirs = SelectSeq(result.val.children, ListedDir)
        /\ result.val.files = SelectSeq(result.val.children, ListedFile)
        /\ \A i \in 1..Len(result.val.children) :
              /\ parent(result.val.children[i].path) = call.path
              /\ result.val.children[i].name = result.val.children[i].path[Len(call.path) + 1]

\* a file listed before a directory, below a directory that is not a root
C14_Witness ==
    /\ Listed
    /\ Len(result.val.children) = 2
    /\ Len(result.val.dirs) = 1
    /\ result.val.children[1].type = "file"
    /\ ~is_root(call.path)

(***************************************************************************)
(* Properties of parse_fs_size.                                            *)
(***************************************************************************)
SizeParsed == outcome # NotApplied

\* the letters a size text ends with, and the magnitude before them
RECURSIVE Letters(_)
Letters(text) ==
    IF text = <<>> \/ IsDigit(text[Len(text)]) \/ text[Len(text)] \in {".", " "} THEN <<>>
    ELSE Append(Letters(SubSeq(text, 1, Len(text) - 1)), text[Len(text)])

MagnitudeOf(text) == SelectSeq(SubSeq(text, 1, Len(text) - Len(Letters(text))), LAMBDA c : c # " ")

\* the magnitude's digits with the point taken out, and the power of ten the
\* point stood for
Digits(mag) == SelectSeq(mag, IsDigit)
PointScale(mag) == 10 ^ (IF Dots(mag) = {} THEN 0 ELSE Len(mag) - DotOf(mag))

\* n is magnitude * unit cut to whole bytes
CutProduct(n, mag, unit) ==
    /\ n * PointScale(mag) <= DecimalValue(Digits(mag)) * unit
    /\ DecimalValue(Digits(mag)) * unit < (n + 1) * PointScale(mag)

Gives(text, n) == (input = text /\ SizeParsed) => outcome = [exc |-> "none", val |-> <<n>>]

\* C15: parse_fs_size gives magnitude times 1024, 1024^2, 1024^3 for KiB,
\* MiB, GiB (a fractional magnitude cut to whole bytes), the integer before a
\* trailing b or B, and the integer itself without a suffix; "10KiB" is
\* 10240, "512B" and "512b" are 512, "7" is 7, "1.5KiB" is 1536.
C15_SizeParsing ==
    /\ (SizeParsed /\ Digits(input) # <<>>) =>
          /\ Letters(input) = <<"K", "i", "B">> =>
                outcome.exc = "none" /\ CutProduct(outcome.val[1], MagnitudeOf(input), 1024)
          /\ Letters(input) = <<"M", "i", "B">> =>
                outcome.exc = "none" /\ CutProduct(outcome.val[1], MagnitudeOf(input), 1048576)
          /\ Letters(input) = <<"G", "i", "B">> =>
                outcome.exc = "none" /\ CutProduct(outcome.val[1], MagnitudeOf(input), 1073741824)
          /\ (Letters(input) \in {<<"b">>, <<"B">>, <<>>} /\ Dots(input) = {}) =>
                outcome = [exc |-> "none", val |-> <<DecimalValue(MagnitudeOf(input))>>]
    /\ Gives(<<"1", "0", "K", "i", "B">>, 10240)
    /\ Gives(<<"5", "1", "2", "B">>, 512)
    /\ Gives(<<"5", "1", "2", "b">>, 512)
    /\ Gives(<<"7">>, 7)
    /\ Gives(<<"1", ".", "5", "K", "i", "B">>, 1536)

\* "1.5KiB" has been parsed
C15_Witness == SizeParsed /\ input = <<"1", ".", "5", "K", "i", "B">> /\ outcome.val = <<1536>>

(***************************************************************************)
(* Properties of the errors of the storage layer.                          *)
(***************************************************************************)
\* what is not of the storage layer's kinds: the send layer's error and the
\* exceptions of Python itself
NonDomain == {"FlipperError", "KeyError", "AttributeError"}

\* C16: a storage operation returns its result or fails with a storage error
\* kind; no raw FlipperError and no KeyError or AttributeError leaves the
\* storage layer.
C16_OnlyStorageErrors == ~Called("none") => result.exc \notin NonDomain

(***************************************************************************)
(* Properties of File.read and File.write.                                 *)
(***************************************************************************)
OnWire(cmds) == \E i \in DOMAIN wire : wire[i].cmd \in cmds

\* C17: File.read raises StoragePathFree on a path that does not exist and
\* StoragePathNotFile on a directory or a storage root, and in both cases
\* sends no "storage read" and reads no raw bytes.
C17_ReadChecksBeforeReading ==
    Called("read") =>
        /\ KindBefore(call.path) = "" => result.exc = "StoragePathFree"
        /\ KindBefore(call.path) \in {"dir", "storage"} => result.exc = "StoragePathNotFile"
        /\ KindBefore(call.path) # "file" => ~OnWire({"read", "rawread"})

\* a directory has been read
C17_Witness == Called("read") /\ KindBefore(call.path) = "dir" /\ result.exc = "StoragePathNotFile"

\* the bytes the read was handed differ from the file the md5 was taken of
ReadDamaged == call.noisy /\ call.before[call.path].data # <<>>

\* C18: File.read fails with StorageMD5Mismatch whenever the MD5 of the bytes
\* it read differs from the md5 of the extended stat, and returns the data
\* only when the two are equal.
C18_MismatchIsIntegrityError ==
    (Called("read") /\ KindBefore(call.path) = "file") =>
        /\ ReadDamaged => result.exc = "StorageMD5Mismatch"
        /\ result.exc = "none" => MD5(result.val.data) = result.val.md5

\* the call put no write command, no payload and no cancel byte on the link
NothingWritten == ~OnWire({"write", "payload", "kill"}) /\ fs = call.before

\* C19: File.write rejects, with nothing written to the link, an existing
\* file when overwrite is false (StoragePathNotFree), an existing directory
\* at the path (StoragePathNotFile), and a parent that is a file
\* (StoragePathInvalid).
C19_WriteRejectsBeforeWriting ==
    Called("write") =>
        /\ (KindBefore(call.path) = "file" /\ ~call.overwrite) =>
              result.exc = "StoragePathNotFree" /\ NothingWritten
        /\ KindBefore(call.path) = "dir" =>
              result.exc = "StoragePathNotFile" /\ NothingWritten
        /\ KindBefore(parent(call.path)) = "file" =>
              result.exc = "StoragePathInvalid" /\ NothingWritten

\* a write below a file has been rejected
C19_Witness ==
    /\ Called("write")
    /\ KindBefore(parent(call.path)) = "file"
    /\ result.exc = "StoragePathInvalid"
    /\ NothingWritten

ParentMissing == Called("write") /\ KindBefore(parent(call.path)) = ""

\* every mkdir on the link comes before the write command, an outer
\* directory before an inner one
ChainThenWrite ==
    \A i \in DOMAIN wire, j \in DOMAIN wire :
        /\ (wire[i].cmd = "mkdir" /\ wire[j].cmd = "write") => i < j
        /\ (wire[i].cmd = "mkdir" /\ wire[j].cmd = "mkdir" /\ i < j) =>
              Len(wire[i].path) < Len(wire[j].path)

\* C20: File.write on a path whose parent does not exist fails with
\* StoragePathInvalid and sends no write command when create_parents is
\* false; when it is true the missing parents are created, outermost first,
\* before the write command is sent.
C20_MissingParent ==
    ParentMissing =>
        /\ ~call.create_parents => (result.exc = "StoragePathInvalid" /\ ~OnWire({"write"}))
        /\ call.create_parents =>
              /\ result.exc = "none"
              /\ KindOf(fs, parent(call.path)) = "dir"
              /\ ChainThenWrite

(***************************************************************************)
(* Further properties of FlipperPath.mkdir and FlipperPath.remove.         *)
(***************************************************************************)
\* C21: FlipperPath.mkdir sends no "storage mkdir" when the path is a root
\* (StoragePathInvalid, or a silent return with exist_ok), when a file is at
\* the path (StoragePathNotDir whatever exist_ok is), and when a directory is
\* at the path (StoragePathNotFree, or a silent return with exist_ok).
C21_MkdirOnTakenPathSendsNothing ==
    (Called("mkdir") /\ KindBefore(call.path) # "") =>
        /\ Mkdirs = <<>>
        /\ fs = call.before
        /\ KindBefore(call.path) = "storage" =>
              result.exc = (IF call.exist_ok THEN "none" ELSE "StoragePathInvalid")
        /\ KindBefore(call.path) = "file" => result.exc = "StoragePathNotDir"
        /\ KindBefore(call.path) = "dir" =>
              result.exc = (IF call.exist_ok THEN "none" ELSE "StoragePathNotFree")

\* mkdir with exist_ok returned silently on a directory that exists
C21_Witness ==
    /\ Called("mkdir") /\ KindBefore(call.path) = "dir" /\ call.exist_ok
    /\ result.exc = "none" /\ Mkdirs = <<>>

RecursiveRemoveOfDir ==
    /\ Called("remove") /\ call.recursive /\ call.remove_contents
    /\ KindBefore(call.path) = "dir"

\* the device after the first n remove commands of the call
RECURSIVE Replayed(_)
Replayed(n) == IF n = 0 THEN call.before ELSE DevRemove(Replayed(n - 1), Removes[n].path).fs

EmptyWhenRemoved(i) == ~\E q \in DOMAIN Replayed(i - 1) : StrictlyBelow(q, Removes[i].path)

\* C22: remove(recursive, remove_contents) on a directory sends exactly one
\* remove for every file and every directory of the subtree, every file
\* before the first directory and the path itself last, and each directory
\* is empty on the device when its remove is sent.
C22_RecursiveRemoveOrder ==
    RecursiveRemoveOfDir =>
        /\ result.exc = "none"
        /\ {Removes[i].path : i \in DOMAIN Removes}
              = FilesBelow(call.path) \cup DirsBelow(call.path) \cup {call.path}
        /\ Len(Removes) = Cardinality(FilesBelow(call.path) \cup DirsBelow(call.path)) + 1
        /\ Removes[Len(Removes)].path = call.path
        /\ \A i, j \in DOMAIN Removes :
              (KindBefore(Removes[i].path) = "file" /\ KindBefore(Removes[j].path) = "dir") => i < j
        /\ \A i \in DOMAIN Removes : KindBefore(Removes[i].path) = "dir" => EmptyWhenRemoved(i)
        /\ DOMAIN fs = {q \in DOMAIN call.before : ~IsPrefix(call.path, q)}

\* a directory with a file inside a subdirectory has been removed
C22_Witness ==
    /\ RecursiveRemoveOfDir /\ result.exc = "none"
    /\ Len(Removes) = 3
    /\ KindBefore(Removes[1].path) = "file" /\ Len(Removes[1].path) = Len(call.path) + 2

FlatRemoveOfDir ==
    /\ Called("remove") /\ ~call.recursive
    /\ KindBefore(call.path) = "dir"
    /\ DirsBelow(call.path) = {}

\* C23: remove(recursive=false, remove_contents=true) on a directory that
\* holds only files sends one remove for each file and then the remove of the
\* directory; on an empty directory it sends only the remove of the
\* directory, whatever remove_contents is.
C23_FlatRemoveOrder ==
    (FlatRemoveOfDir /\ (call.remove_contents \/ FilesBelow(call.path) = {})) =>
        /\ result.exc = "none"
        /\ Len(Removes) = Cardinality(FilesBelow(call.path)) + 1
        /\ {Removes[i].path : i \in 1..(Len(Removes) - 1)} = FilesBelow(call.path)
        /\ Removes[Len(Removes)].path = call.path
        /\ DOMAIN fs = {q \in DOMAIN call.before : ~IsPrefix(call.path, q)}

\* a directory with two files has been removed with remove_contents
C23_Witness ==
    /\ FlatRemoveOfDir /\ call.remove_contents /\ result.exc = "none"
    /\ Cardinality(FilesBelow(call.path)) = 2
    /\ Len(Removes) = 3

MkdirOnFreePath == Called("mkdir") /\ ~is_root(call.path) /\ KindBefore(call.path) = ""

AncestorsAreDirs ==
    \A i \in 1..(Len(call.path) - 1) : KindBefore(SubSeq(call.path, 1, i)) \in {"dir", "storage"}
AncestorIsFile ==
    \E i \in 1..(Len(call.path) - 1) : KindBefore(SubSeq(call.path, 1, i)) = "file"

\* C24: mkdir(make_parents=false) on a free path sends "storage mkdir" only
\* when every ancestor is a directory or the root; when an ancestor is missing
\* or is a file it raises StoragePathInvalid and sends no mkdir.  With
\* make_parents=true an ancestor that is a file gives StoragePathInvalid and
\* no mkdir as well.
C24_MkdirChecksAncestors ==
    MkdirOnFreePath =>
        /\ (~call.make_parents /\ AncestorsAreDirs) =>
              (result.exc = "none" /\ Mkdirs = <<Cmd("mkdir", call.path)>>)
        /\ (~call.make_parents /\ ~AncestorsAreDirs) =>
              (result.exc = "StoragePathInvalid" /\ Mkdirs = <<>> /\ fs = call.before)
        /\ (call.make_parents /\ AncestorIsFile) =>
              (result.exc = "StoragePathInvalid" /\ Mkdirs = <<>> /\ fs = call.before)

\* a mkdir two levels below a file has been refused
C24_Witness ==
    /\ MkdirOnFreePath /\ ~call.make_parents
    /\ Len(call.path) = 4 /\ KindBefore(SubSeq(call.path, 1, 2)) = "file"
    /\ result.exc = "StoragePathInvalid" /\ Mkdirs = <<>>

(***************************************************************************)
(* Properties of the bytes File.write puts on the link.                    *)
(***************************************************************************)
\* data with each CR LF pair made one CR, every other byte as it is
RECURSIVE PairsJoined(_)
PairsJoined(data) ==
    IF data = <<>> THEN <<>>
    ELSE IF StartsWith(data, <<"CR", "LF">>) THEN <<"CR">> \o PairsJoined(SubSeq(data, 3, Len(data)))
    ELSE <<Head(data)>> \o PairsJoined(Tail(data))

\* C25: once its checks passed, File.write puts on the link exactly the
\* "storage write <path>" command ended by CR, the payload with every CR LF
\* pair replaced by one CR, and then the cancel byte once.
C25_WriteStreamOnLink ==
    outgoing # <<>> =>
        outgoing = WriteCommand(input.path) \o PairsJoined(input.data) \o <<"ETX">>

(***************************************************************************)
(* Properties of the hard cap of send.                                     *)
(***************************************************************************)
\* C26: on both transports a send holds no more than the hard cap of reply
\* data while it waits for the terminator, and when the device has sent as
\* much as the cap without the terminator the send has stopped reading.
C26_SendStopsAtCap ==
    outgoing # <<>> =>
        /\ answer.held <= SmallCap
        /\ Len(incoming.reply) >= SmallCap => answer.exc # "waiting"

\* the first part of the value names a storage: the value has a root
HasStorageRoot(value) == value.parts # <<>> /\ rstrip(value.parts[1]) \in storage_texts

\* the segments of a value: its parts after the one that names the storage
SegmentsAfterRoot(value) == IF HasStorageRoot(value) THEN Tail(value.parts) ELSE value.parts

\* C27: every path value that construction, parent, parents or the join of
\* a name returns has a storage root, and is_root() is true of it exactly
\* when it has no segments; the parent of a root path is never a path
\* without a root.
C27_PathsKeepRoot ==
    Walking =>
        /\ HasStorageRoot(outcome.val)
        /\ PureFlipperPath_is_root(outcome.val) <=> (SegmentsAfterRoot(outcome.val) = <<>>)

\* the i-th path that parents is to yield: the value without its last i parts
Shortened(value, i) == SubSeq(value.parts, 1, Len(value.parts) - i)

ParentsIterated == Walking /\ outcome.op = "parents"

Explored == outcome # NotApplied

\* the child that the claim expects of the i-th line of the listing
Expected(i) ==
    [name |-> input.entries[i].name,
     type |-> IF input.entries[i].tag = "D" THEN "dir" ELSE "file",
     size |-> IF input.entries[i].tag = "D" THEN <<>>
              ELSE <<parse_fs_size_text(input.entries[i].size).val>>]

Returned29(i) ==
    [name |-> outcome.val[i].name, type |-> outcome.val[i].type, size |-> outcome.val[i].size]

\* C29: for a reply of lines "[D] <name>" and "[F] <name> <size>", the size
\* in any form that the size parser accepts, Storage._explorer returns one
\* entry per line, the last line before the prompt included, each with the
\* kind, the name and the parsed size of its line.
C29_ExplorerKeepsEveryLine ==
    Explored =>
        /\ outcome.exc = "none"
        /\ Len(outcome.val) = Len(input.entries)
        /\ \A i \in 1..Len(input.entries) : Returned29(i) = Expected(i)

\* the text that is left of a size text when its unit suffix is taken off
Residue(text) ==
    IF unit_of(Last3(text)) # 0 THEN ButLast3(text)
    ELSE IF EndsWith(text, <<"b">>) \/ EndsWith(text, <<"B">>) THEN SubSeq(text, 1, Len(text) - 1)
    ELSE text

\* a residue that is a number: digits, or digits around one point
IsNumeric(text) == AllDigits(strip(text)) \/ IsFloatText(strip(text))

\* C30: parse_fs_size returns 0 and does not raise for an input that leaves
\* a non-numeric residue when the unit suffix is removed, such as "abc", "",
\* "12xB" and "3TiB".
C30_ResidueGivesZero ==
    (SizeParsed /\ ~IsNumeric(Residue(input))) => outcome = [exc |-> "none", val |-> <<0>>]

(***************************************************************************)
(* Properties of Storage.stat and Storage.info.                            *)
(***************************************************************************)
\* the commands of the wire, without their paths
Verbs == [i \in 1..Len(wire) |-> wire[i].cmd]

EveryPathIs(p) == \A i \in 1..Len(wire) : wire[i].path = p

\* the sizes that the device reports for a storage root
StatTotal(p) == parse_fs_size(DevStat(call.before, p).nums[1])
StatFree(p) == parse_fs_size(DevStat(call.before, p).nums[2])
InfoTotal(p) == parse_fs_size(DevInfo(call.before, p).nums[1])
InfoFree(p) == parse_fs_size(DevInfo(call.before, p).nums[2])

Smaller(n, a, b) == n <= a /\ n <= b /\ n \in {a, b}

\* C31: Storage.stat without extended sends "storage stat <path>" and
\* nothing else; with extended it sends after it "storage md5" for a file,
\* "storage tree" for a directory, and "storage tree", "storage timestamp",
\* "storage info" in this order for a storage root, whose total_size and
\* free_space are each the smaller of the values of stat and info.
C31_StatRoundTrips ==
    Called("stat") =>
        /\ EveryPathIs(call.path)
        /\ ~call.extended => Verbs = <<"stat">>
        /\ (call.extended /\ KindBefore(call.path) = "file") => Verbs = <<"stat", "md5">>
        /\ (call.extended /\ KindBefore(call.path) = "dir") => Verbs = <<"stat", "tree">>
        /\ (call.extended /\ KindBefore(call.path) = "storage") =>
              /\ Verbs = <<"stat", "tree", "timestamp", "info">>
              /\ result.exc = "none"
              /\ Smaller(result.val.total_size, StatTotal(call.path), InfoTotal(call.path))
              /\ Smaller(result.val.free_space, StatFree(call.path), InfoFree(call.path))

C31_Witness ==
    /\ Called("stat") /\ call.extended /\ KindBefore(call.path) = "storage"
    /\ result.exc = "none"
    /\ result.val.total_size = InfoTotal(call.path) /\ InfoTotal(call.path) < StatTotal(call.path)
    /\ result.val.free_space = StatFree(call.path) /\ StatFree(call.path) < InfoFree(call.path)
    /\ Len(result.val.tree.children) >= 2

InfoCalled == outcome # NotApplied

\* the paths of the inputs that name a storage root
InfoOnRoot == input.path \in {<<"/", "e", "x", "t">>, <<"/", "e", "x", "t", "/">>}

\* the lines of the reply, without the empty lines before the first and
\* after the last line that has text
RECURSIVE Trimmed(_)
Trimmed(lines) ==
    IF lines # <<>> /\ Head(lines) = <<>> THEN Trimmed(Tail(lines))
    ELSE IF lines # <<>> /\ lines[Len(lines)] = <<>> THEN Trimmed(SubSeq(lines, 1, Len(lines) - 1))
    ELSE lines

\* C32: Storage.info on a path that is no root raises StoragePathInvalid
\* and sends no command; on a root it returns a record only when the reply
\* has exactly six lines, and for any other number of lines it fails with
\* the parse error FlipperException and returns no partial record.
C32_InfoNeedsSixLines ==
    InfoCalled =>
        /\ ~InfoOnRoot => (outcome.exc = "StoragePathInvalid" /\ outcome.sent = <<>>)
        /\ InfoOnRoot =>
              /\ outcome.sent = <<InfoCommand>>
              /\ outcome.exc = "none" => (Len(Trimmed(input.lines)) = 6 /\ Len(outcome.val) = 1)
              /\ Len(Trimmed(input.lines)) # 6 =>
                    (outcome.exc = "FlipperException" /\ outcome.val = <<>>)

C32_Witness ==
    /\ InfoCalled /\ InfoOnRoot
    /\ input.lines = InfoLines
    /\ outcome.exc = "none"
    /\ outcome.val[1].total_size = 7168 /\ outcome.val[1].free_space = 5120

(***************************************************************************)
(* Properties of Storage.read on the link.                                 *)
(***************************************************************************)
ReadDone == outgoing # <<>>

\* C33: Storage.read sends "storage read <path>" with the bare line break
\* as terminator, takes n from the header "Size: <n>", and then does one
\* raw read of n bytes when n > 0 and none when n = 0; what it returns are
\* the n bytes of the file, none of them a header or a prompt byte.
C33_ReadTakesHeaderThenBytes ==
    (ReadDone /\ ~incoming.refused) =>
        /\ outgoing = <<ReadCommand>>
        /\ answer.exc = "none"
        /\ answer.reads = (IF incoming.content = <<>> THEN <<>> ELSE <<Len(incoming.content)>>)
        /\ answer.val = incoming.content

\* C36: when the device answers "storage read <file>" with an error line,
\* Storage.read fails with the FlipperError that send raised, which carries
\* the device's message, and does no raw read.
C36_ReadErrorIsFlipperError ==
    (ReadDone /\ incoming.refused) =>
        /\ answer.exc = "FlipperError"
        /\ answer.reads = <<>>

(***************************************************************************)
(* Properties of File.write and the send that follows it.                  *)
(***************************************************************************)
SessionOver == outgoing # <<>>

\* the bytes that reached the device before the first cancel byte
RECURSIVE BeforeCancel(_)
BeforeCancel(line) ==
    IF line = <<>> \/ Head(line) = "ETX" THEN <<>> ELSE <<Head(line)>> \o BeforeCancel(Tail(line))

HasCancel(line) == \E i \in DOMAIN line : line[i] = "ETX"

\* C34: in File.write over the local transport the device receives the whole
\* write command and every payload byte before it receives the cancel byte;
\* the reset of the output buffer in kill_cmd and in the next send discards
\* no command or payload byte that was written and not yet transmitted.
C34_WriteReachesDeviceBeforeCancel ==
    (SessionOver /\ transport = "local") =>
        /\ HasCancel(outgoing)
        /\ BeforeCancel(outgoing) = WriteCommand(input.path) \o PairsJoined(input.data)

\* C35: the send that follows File.write returns the reply to its own
\* command and nothing else, on both transports: the device's output of the
\* write session, whenever it arrives, is no part of the result and does
\* not end the send early.
C35_NextSendReturnsOwnReply ==
    SessionOver => (answer.exc = "none" /\ answer.val = NextReply)

\* ---------------------------------------------------------------------
\* C37: after the function run by a Task started through _exec has
\* returned, the owner's _exec_thread slot is cleared (so that a later
\* _exec starts a new task): the slot never holds a task whose function
\* has returned
TaskReturned(i) == i \in 1..Len(tasks) /\ tasks[i] = "ended"

C37_ReturnedTaskLeavesSlot == ~TaskReturned(_exec_thread)

\* ---------------------------------------------------------------------
\* C38: a watchdog whose deadline has come fires on its own thread, also
\* while the caller calls _stop: from then on the object comes to rest
\* with both the watchdog slot and the exec-thread slot None
BothSlotsNone == _watchdog = None /\ _exec_thread = 0

MkdirOfDirectory == Called("mkdir") /\ ~call.exist_ok /\ KindBefore(call.path) = "dir"

C39_ObjectDecidesByDeviceState ==
    /\ MkdirOfDirectory => (result.exc = "StoragePathNotFree" /\ Mkdirs = <<>>)
    /\ Called("exists") => (result.exc = "none" /\ result.val = (KindBefore(call.path) # ""))

====
